---- MODULE Spec2Model ----
(***************************************************************************)
(* Cost tracking engine of src/utils/metrics/cost_tracker.py: the pricing  *)
(* calculation, the CSV call log, the in-memory session rollups and their  *)
(* JSON snapshot, with the callers of track_call as threads whose steps    *)
(* are the statements of track_call, _log_to_csv, _update_session and      *)
(* _save_session_costs.                                                    *)
(*                                                                         *)
(* Money is counted in whole micro-dollars (the 6th fractional digit that  *)
(* calculate_cost rounds to); unrounded products are in twentieths of it.  *)
(* Python dicts are objects with identity: the rollup of a session and the *)
(* {calls, tokens, cost} dict of an agent or model live in heaps and are   *)
(* reached through references, as in the interpreter.                      *)
(***************************************************************************)
EXTENDS Integers, Sequences, FiniteSets, TLC

VARIABLES
    up,             \* a CostTracker instance exists in a live process
    session_costs,  \* self.session_costs: session_id -> reference into heapR
    heapR,          \* the rollup dicts ever created by this process
    heapT,          \* the {calls, tokens, cost} dicts ever created
    csv_file,       \* cost_log.csv: [exists, rows]
    session_file,   \* session_costs.json: [state, members]
    th,             \* per caller thread: position in track_call and its locals
    clock,          \* datetime.now()
    ncalls,         \* track_call invocations started so far
    errlog,         \* logger.error records, by kind
    sched,          \* the interpreter's scheduler: who ran last, preemptions
    hist,           \* history of the run, read by the properties only
    calc,           \* a caller of calculate_cost: its arguments and result
    rd,             \* a reader of the engine: what it holds, where it is
    eng2,           \* a second CostTracker on the same directory
    tl,             \* the TraceLogger
    ft,             \* a CostTracker with its costs held as Python floats
    tk              \* the task-based CostTracker of utils.metrics

vars == <<up, session_costs, heapR, heapT, csv_file, session_file, th, clock,
          ncalls, errlog, sched, hist, calc, rd, eng2, tl, ft, tk>>

\* What a step of the first engine's track_call never touches
elsewhere == <<calc, eng2, tl, ft, tk>>

----------------------------------------------------------------------------
\* Bounds of the model

MaxCalls == 2
MaxFaultCalls == 2
MaxCrashCalls == 3
NThreads == 2
MaxRestarts == 2
MaxPreempt == 2
MaxTokens == 4
MaxWrites == 1
MaxEvents == 3
MaxTaskOps == 4
MaxResponseLen == 200

\* Inputs of track_call
SessionIds == {"s1", "s2"}
AgentNames == {"Planner", "Recon"}
ModelNames == {"gpt-4o-mini", "gpt-4o"}
Providers == {"openai"}
TokenPairs == {<<0, 0>>, <<3, 2>>}
\* Inputs of track_call for concurrent callers
ConcAgentNames == {"Planner"}
ConcModelNames == {"gpt-4o"}
ConcTokenPairs == {<<3, 2>>}
\* Inputs of track_call where file operations may fail or the process be killed
FaultAgentNames == {"Planner"}
FaultModelNames == {"gpt-4o"}
FaultTokenPairs == {<<3, 2>>}
AnyTokenPairs == {<<3, 2>>, <<-3, 0>>}
Threads == 1..NThreads
CalcModels == {"gpt-4o-mini", "gpt-4o", "unknown-model-x"}
CalcTokens == (-MaxTokens..MaxTokens) \cup {1000000}

----------------------------------------------------------------------------
\* Helpers

EmptyMap == [x \in {} |-> 0]

RECURSIVE SetToSeq(_)
SetToSeq(S) ==
    IF S = {} THEN <<>>
    ELSE LET x == CHOOSE y \in S : TRUE IN <<x>> \o SetToSeq(S \ {x})

IndexOf(seq, x) == CHOOSE i \in 1..Len(seq) : seq[i] = x

RECURSIVE SumOver(_, _)
\* sum of f[k] over k in S
SumOver(S, f) ==
    IF S = {} THEN 0
    ELSE LET k == CHOOSE y \in S : TRUE IN f[k] + SumOver(S \ {k}, f)

----------------------------------------------------------------------------
\* Pricing table and cost calculator

\* USD per 1M tokens, in units of 0.05 USD: the price of one token in
\* twentieths of a micro-dollar (every price of the table is a multiple)
MODEL_PRICING ==
    [m \in {"gpt-4o-mini", "gpt-4o", "gpt-4", "claude-3-5-sonnet-20241022",
            "claude-3-opus-20240229", "claude-3-haiku-20240307"} |->
        CASE m = "gpt-4o-mini" -> [input |-> 3, output |-> 12]
          [] m = "gpt-4o" -> [input |-> 100, output |-> 300]
          [] m = "gpt-4" -> [input |-> 600, output |-> 1200]
          [] m = "claude-3-5-sonnet-20241022" -> [input |-> 60, output |-> 300]
          [] m = "claude-3-opus-20240229" -> [input |-> 300, output |-> 1500]
          [] m = "claude-3-haiku-20240307" -> [input |-> 5, output |-> 25]]

\* round(x, 6): x in twentieths of a micro-dollar, the result in
\* micro-dollars, ties to even.  For the counts of this model (up to 5 in
\* absolute value, and 1,000,000) the float arithmetic of calculate_cost
\* gives these same values.
Round6(x) ==
    LET q == x \div 20
        r == x % 20
    IN  IF 2 * r < 20 THEN q
        ELSE IF 2 * r > 20 THEN q + 1
        ELSE IF q % 2 = 0 THEN q ELSE q + 1

\* A calculator that charges nothing for a model missing from the table
calculate_cost_strict(model, input_tokens, output_tokens) ==
    LET known == model \in DOMAIN MODEL_PRICING
        input_cost == IF known
                      THEN input_tokens * MODEL_PRICING[model].input ELSE 0
        output_cost == IF known
                       THEN output_tokens * MODEL_PRICING[model].output ELSE 0
    IN  [input_cost |-> Round6(input_cost),
         output_cost |-> Round6(output_cost),
         total_cost |-> Round6(input_cost + output_cost)]

calculate_cost(model, input_tokens, output_tokens) ==
    LET pricing == IF model \in DOMAIN MODEL_PRICING
                   THEN MODEL_PRICING[model]
                   ELSE MODEL_PRICING["gpt-4o-mini"]
        input_cost == input_tokens * pricing.input
        output_cost == output_tokens * pricing.output
        total_cost == input_cost + output_cost
    IN  [input_cost |-> Round6(input_cost),
         output_cost |-> Round6(output_cost),
         total_cost |-> Round6(total_cost)]

\* The Call Record
LLMCallMetrics(ts, session_id, agent_name, model, provider, input_tokens, output_tokens, costs, latency_ms) ==
    [timestamp |-> ts, session_id |-> session_id, agent_name |-> agent_name,
     model |-> model, provider |-> provider, input_tokens |-> input_tokens,
     output_tokens |-> output_tokens,
     total_tokens |-> input_tokens + output_tokens,
     input_cost |-> costs.input_cost, output_cost |-> costs.output_cost,
     total_cost |-> costs.total_cost, latency_ms |-> latency_ms]

NoMetrics ==
    [timestamp |-> 0, session_id |-> "", agent_name |-> "", model |-> "",
     provider |-> "", input_tokens |-> 0, output_tokens |-> 0,
     total_tokens |-> 0, input_cost |-> 0, output_cost |-> 0,
     total_cost |-> 0, latency_ms |-> 0]

----------------------------------------------------------------------------
\* The CSV call log

CsvHeader ==
    <<"timestamp", "session_id", "agent_name", "model", "provider",
      "input_tokens", "output_tokens", "total_tokens", "input_cost",
      "output_cost", "total_cost", "latency_ms">>

\* A row with total_tokens and input_tokens in each other's column
CsvRowSwapped(m) ==
    <<m.timestamp, m.session_id, m.agent_name, m.model, m.provider,
      m.total_tokens, m.output_tokens, m.input_tokens, m.input_cost,
      m.output_cost, m.total_cost, m.latency_ms>>

\* The row writer.writerow is given in _log_to_csv
CsvRow(m) ==
    <<m.timestamp, m.session_id, m.agent_name, m.model, m.provider,
      m.input_tokens, m.output_tokens, m.total_tokens, m.input_cost,
      m.output_cost, m.total_cost, m.latency_ms>>

\* csv.DictReader: the first row names the columns of every later row
load_cost_log(file) ==
    IF ~file.exists \/ file.rows = <<>> THEN <<>>
    ELSE LET fieldnames == file.rows[1]
             names == {fieldnames[i] : i \in 1..Len(fieldnames)}
         IN  [k \in 1..(Len(file.rows) - 1) |->
                 [n \in names |-> file.rows[k + 1][IndexOf(fieldnames, n)]]]

ZeroTriple == [calls |-> 0, tokens |-> 0, cost |-> 0]

\* d[k] of a defaultdict whose default is the zero triple
TripleOf(d, k) == IF k \in DOMAIN d THEN d[k] ELSE ZeroTriple

AddRow(t, row) ==
    [calls |-> t.calls + 1, tokens |-> t.tokens + row["total_tokens"],
     cost |-> t.cost + row["total_cost"]]

NewAnalysis == [calls |-> 0, tokens |-> 0, cost |-> 0,
                agents |-> EmptyMap, models |-> EmptyMap]

AnalysisAdd(e, row) ==
    LET agent == row["agent_name"]
        model == row["model"]
    IN  [calls |-> e.calls + 1,
         tokens |-> e.tokens + row["total_tokens"],
         cost |-> e.cost + row["total_cost"],
         agents |-> [a \in DOMAIN e.agents \cup {agent} |->
                        IF a = agent THEN AddRow(TripleOf(e.agents, a), row)
                        ELSE e.agents[a]],
         models |-> [x \in DOMAIN e.models \cup {model} |->
                        IF x = model THEN AddRow(TripleOf(e.models, x), row)
                        ELSE e.models[x]]]

RECURSIVE AnalyzeFrom(_, _, _)
AnalyzeFrom(rows, k, sessions) ==
    IF k > Len(rows) THEN sessions
    ELSE LET row == rows[k]
             sid == row["session_id"]
             e == IF sid \in DOMAIN sessions THEN sessions[sid] ELSE NewAnalysis
         IN  AnalyzeFrom(rows, k + 1,
                 [s \in DOMAIN sessions \cup {sid} |->
                     IF s = sid THEN AnalysisAdd(e, row) ELSE sessions[s]])

analyze_by_session(rows) == AnalyzeFrom(rows, 1, EmptyMap)

----------------------------------------------------------------------------
\* Rollups: heap objects and their values

\* The dict literal of _update_session for an unseen session
NewRollup(m) ==
    [session_id |-> m.session_id, start_time |-> m.timestamp,
     last_update |-> m.timestamp, total_calls |-> 0, total_tokens |-> 0,
     total_cost |-> 0, agents |-> EmptyMap, models |-> EmptyMap]

TripleMap(hT, refs) == [n \in DOMAIN refs |-> hT[refs[n]]]

\* The value of a rollup object: references replaced by what they point to
RollupVal(hT, o) ==
    [o EXCEPT !.agents = TripleMap(hT, o.agents),
              !.models = TripleMap(hT, o.models)]

\* The value of self.session_costs
SessionsVal(sc, hR, hT) == [s \in DOMAIN sc |-> RollupVal(hT, hR[sc[s]])]

Live == SessionsVal(session_costs, heapR, heapT)

----------------------------------------------------------------------------
\* The JSON snapshot

NoFile == [state |-> "absent", members |-> {}]
PartialFile == [state |-> "partial", members |-> {}]

MembersOf(f) == {<<k, f[k]>> : k \in DOMAIN f}
FromMembers(ms) ==
    [k \in {m[1] : m \in ms} |-> (CHOOSE m \in ms : m[1] = k)[2]]

\* json.dump(self.session_costs, f): a JSON object per dict, a member per key
json_dump(v) ==
    [state |-> "json",
     members |-> {<<s, [v[s] EXCEPT !.agents = MembersOf(v[s].agents),
                                   !.models = MembersOf(v[s].models)]>> :
                     s \in DOMAIN v}]

\* json.load(f) of a document json_dump wrote
json_load(doc) ==
    LET top == FromMembers(doc.members)
    IN  [s \in DOMAIN top |->
            [top[s] EXCEPT !.agents = FromMembers(top[s].agents),
                           !.models = FromMembers(top[s].models)]]

\* The objects json.load creates for a loaded mapping
AddTriples(hT, f) ==
    LET ns == SetToSeq(DOMAIN f)
    IN  [hT |-> hT \o [i \in 1..Len(ns) |-> f[ns[i]]],
         refs |-> [n \in DOMAIN f |-> Len(hT) + IndexOf(ns, n)]]

RECURSIVE Materialise(_, _, _)
Materialise(ss, v, acc) ==
    IF ss = <<>> THEN acc
    ELSE LET s == Head(ss)
             ag == AddTriples(acc.hT, v[s].agents)
             mo == AddTriples(ag.hT, v[s].models)
             obj == [v[s] EXCEPT !.agents = ag.refs, !.models = mo.refs]
         IN  Materialise(Tail(ss), v,
                 [sc |-> [x \in DOMAIN acc.sc \cup {s} |->
                             IF x = s THEN Len(acc.hR) + 1 ELSE acc.sc[x]],
                  hR |-> Append(acc.hR, obj),
                  hT |-> mo.hT])

Loaded(v) ==
    Materialise(SetToSeq(DOMAIN v), v,
                [sc |-> EmptyMap, hR |-> <<>>, hT |-> <<>>])

----------------------------------------------------------------------------
\* Caller threads

TotalField == <<"total_calls", "total_tokens", "total_cost">>
TripleField == <<"calls", "tokens", "cost">>

\* What the k-th "+=" of a group adds: 1, metrics.total_tokens, metrics.total_cost
Delta(m, k) ==
    CASE k = 1 -> 1
      [] k = 2 -> m.total_tokens
      [] k = 3 -> m.total_cost

NoResult == [kind |-> "none", value |-> NoMetrics]

IdleThread ==
    [pc |-> "idle", metrics |-> NoMetrics, session |-> 0, cont |-> 0,
     tmp |-> 0, fld |-> 1, result |-> NoResult,
     csv_ok |-> TRUE, save_ok |-> TRUE, pre |-> NewRollup(NoMetrics),
     doc |-> NoFile]

Metrics(t) == th[t].metrics

Goto(t, p) == [th EXCEPT ![t].pc = p]

AllIdle == \A t \in Threads : th[t].pc = "idle"

\* Thread t takes the next step without preempting a thread inside a call
Continues(t) ==
    IF sched.last \in {0, t} THEN TRUE ELSE th[sched.last].pc = "idle"

\* Thread t may take the next step
Runs(t) == IF Continues(t) THEN TRUE ELSE sched.preempts < MaxPreempt

Sched(t) ==
    [last |-> t,
     preempts |-> IF Continues(t) THEN sched.preempts ELSE sched.preempts + 1]

ZeroAck == [s \in SessionIds |-> ZeroTriple]

\* The value of a session's rollup, a fresh one when the session is unseen
RollupOr(v, m) ==
    IF m.session_id \in DOMAIN v THEN v[m.session_id] ELSE NewRollup(m)

\* The triple of a breakdown entry after the Call Record m is added to it
AddRecord(tr, m) ==
    [calls |-> tr.calls + 1, tokens |-> tr.tokens + m.total_tokens,
     cost |-> tr.cost + m.total_cost]

\* The breakdown d after m is added under the name n
FoldInto(d, n, m) ==
    [x \in DOMAIN d \cup {n} |->
        IF x = n THEN AddRecord(TripleOf(d, n), m) ELSE d[x]]

\* The rollup r after the Call Record m is folded into it
Folded(r, m) ==
    [r EXCEPT !.last_update = m.timestamp,
              !.total_calls = @ + 1,
              !.total_tokens = @ + m.total_tokens,
              !.total_cost = @ + m.total_cost,
              !.agents = FoldInto(@, m.agent_name, m),
              !.models = FoldInto(@, m.model, m)]

\* _update_session run without interruption on the mapping value v
update_session(v, m) ==
    [s \in DOMAIN v \cup {m.session_id} |->
        IF s = m.session_id THEN Folded(RollupOr(v, m), m) ELSE v[s]]

\* The log once _init_csv has run: open(csv_file, 'w') and the header row
InitCsv == [exists |-> TRUE, rows |-> <<CsvHeader>>]

\* A constructor that writes the header at the end of whatever is there
csv_after_init_append(file) ==
    [exists |-> TRUE, rows |-> Append(file.rows, CsvHeader)]

\* if not self.csv_file.exists(): self._init_csv() (lines 86-87)
csv_after_init(file) == IF file.exists THEN file ELSE InitCsv

\* No call of calculate_cost from outside track_call
NoCalc ==
    [model |-> "", input_tokens |-> 0, output_tokens |-> 0, called |-> FALSE,
     result |-> [input_cost |-> 0, output_cost |-> 0, total_cost |-> 0]]

\* What a getter returned: None, one rollup dict, or the mapping itself
NoRef == [kind |-> "none", obj |-> 0]

\* A reader that has called nothing yet
IdleReader ==
    [pc |-> "idle", ref |-> NoRef, writes |-> 0, summary |-> EmptyMap,
     stable |-> {}]

\* sum(s[f] for s in self.session_costs.values()) over the mapping value v
SumTotals(v, f) == SumOver(DOMAIN v, [s \in DOMAIN v |-> v[s][f]])

\* agent_totals / model_totals of generate_summary over the mapping value v:
\* the triples of each name added up over the sessions that have it
MergeBy(v, kind) ==
    [n \in UNION {DOMAIN v[s][kind] : s \in DOMAIN v} |->
        LET having == {s \in DOMAIN v : n \in DOMAIN v[s][kind]}
        IN  [k \in {"calls", "tokens", "cost"} |->
                SumOver(having, [s \in having |-> v[s][kind][n][k]])]]

\* generate_summary run without interruption on the mapping value v
generate_summary(v) ==
    [total_sessions |-> Cardinality(DOMAIN v),
     total_calls |-> SumTotals(v, "total_calls"),
     total_tokens |-> SumTotals(v, "total_tokens"),
     total_cost |-> SumTotals(v, "total_cost"),
     by_agent |-> MergeBy(v, "agents"),
     by_model |-> MergeBy(v, "models")]

----------------------------------------------------------------------------
\* Python floats. The costs calculate_cost returns are floats rounded to 6
\* decimals; _update_session and generate_summary add them up as floats
\* (lines 226, 238, 250, 273, 289, 299) and generate_summary rounds the
\* grand total once more (line 305). A float is kept here as its exact
\* value, so that sums are rounded to 53 bits as the interpreter rounds
\* them.

\* Natural numbers of any size: their digits in base 1024, the least
\* significant first, without leading zeros
LimbAt(a, i) == IF i \in 1..Len(a) THEN a[i] ELSE 0

RECURSIVE TrimNat(_)
TrimNat(a) ==
    IF a = <<>> THEN a
    ELSE IF a[Len(a)] # 0 THEN a ELSE TrimNat(SubSeq(a, 1, Len(a) - 1))

RECURSIVE ToLimbs(_)
ToLimbs(n) == IF n = 0 THEN <<>> ELSE <<n % 1024>> \o ToLimbs(n \div 1024)

RECURSIVE ToInt(_)
ToInt(a) == IF a = <<>> THEN 0 ELSE a[1] + 1024 * ToInt(Tail(a))

\* The number of bits of a number
BitLen(a) ==
    IF a = <<>> THEN 0
    ELSE 10 * (Len(a) - 1)
            + CHOOSE n \in 1..10 :
                  2^(n - 1) <= a[Len(a)] /\ a[Len(a)] < 2^n

RECURSIVE AddNatFrom(_, _, _, _)
AddNatFrom(a, b, i, carry) ==
    IF i > Len(a) /\ i > Len(b)
    THEN IF carry = 0 THEN <<>> ELSE <<carry>>
    ELSE LET v == LimbAt(a, i) + LimbAt(b, i) + carry
         IN  <<v % 1024>> \o AddNatFrom(a, b, i + 1, v \div 1024)

\* a * c for a c of at most 10^6, from digit i on
RECURSIVE MulFrom(_, _, _, _)
MulFrom(a, c, i, carry) ==
    IF i > Len(a)
    THEN ToLimbs(carry)
    ELSE LET v == a[i] * c + carry
         IN  <<v % 1024>> \o MulFrom(a, c, i + 1, v \div 1024)

RECURSIVE DivFrom(_, _, _, _)
DivFrom(a, d, i, rem) ==
    IF i = 0 THEN [q |-> <<>>, r |-> rem]
    ELSE LET v == rem * 1024 + a[i]
             rest == DivFrom(a, d, i - 1, v % d)
         IN  [q |-> Append(rest.q, v \div d), r |-> rest.r]

\* Quotient and remainder of a by a d of at most 10^6
DivSmall(a, d) ==
    LET res == DivFrom(a, d, Len(a), 0)
    IN  [q |-> TrimNat(res.q), r |-> res.r]

\* a * 2^k
ShiftLeft(a, k) ==
    IF a = <<>> THEN a
    ELSE [i \in 1..(k \div 10) |-> 0] \o MulFrom(a, 2^(k % 10), 1, 0)

\* a / 2^k rounded to the nearest integer, ties to even; sticky tells
\* that the exact value lies above a
RoundShift(a, k, sticky) ==
    LET whole == k \div 10
        part == k % 10
        high == DivSmall(SubSeq(a, whole + 1, Len(a)), 2^part)
        below == sticky \/ \E i \in 1..(whole - 1) : LimbAt(a, i) # 0
        \* the dropped bits against one half: -1 below, 0 equal, 1 above
        side == IF k = 0 THEN -1
                ELSE IF part > 0
                THEN IF high.r > 2^(part - 1) THEN 1
                     ELSE IF high.r < 2^(part - 1) THEN -1
                     ELSE IF below \/ LimbAt(a, whole) # 0 THEN 1 ELSE 0
                ELSE IF LimbAt(a, whole) > 1024 \div 2 THEN 1
                     ELSE IF LimbAt(a, whole) < 1024 \div 2 THEN -1
                     ELSE IF below THEN 1 ELSE 0
        odd == LimbAt(high.q, 1) % 2 = 1
    IN  IF side = 1 \/ (side = 0 /\ odd)
        THEN AddNatFrom(high.q, <<1>>, 1, 0) ELSE high.q

\* Python floats: m * 2^e with a mantissa m of exactly 53 bits, or zero
FloatZero == [m |-> <<>>, e |-> 0]

\* The float nearest to a * 2^e
ToFloat(a, e, sticky) ==
    LET n == BitLen(a)
    IN  IF n = 0 THEN FloatZero
        ELSE IF n <= 53
        THEN [m |-> ShiftLeft(a, 53 - n), e |-> e - (53 - n)]
        ELSE LET r == RoundShift(a, n - 53, sticky)
             IN  IF BitLen(r) > 53
                 THEN [m |-> DivSmall(r, 2).q, e |-> e + n - 53 + 1]
                 ELSE [m |-> r, e |-> e + n - 53]

\* x + y of two floats
FloatAdd(x, y) ==
    IF x.m = <<>> THEN y
    ELSE IF y.m = <<>> THEN x
    ELSE LET e0 == IF x.e <= y.e THEN x.e ELSE y.e
         IN  ToFloat(AddNatFrom(ShiftLeft(x.m, x.e - e0),
                                ShiftLeft(y.m, y.e - e0), 1, 0), e0, FALSE)

\* The float nearest to k / 10^6
FromMicro(k) ==
    LET d == DivSmall(ShiftLeft(ToLimbs(k), 80), 1000000)
    IN  ToFloat(d.q, 0 - 80, d.r # 0)

\* x * 10^6 rounded to the nearest integer, ties to even
ToMicro(x) ==
    IF x.m = <<>> THEN 0
    ELSE ToInt(RoundShift(MulFrom(x.m, 1000000, 1, 0), 0 - x.e, FALSE))

\* round(x, 6)
FloatRound6(x) == FromMicro(ToMicro(x))

----------------------------------------------------------------------------
\* The engine with float costs: one caller, every file operation succeeds,
\* each call runs without interruption

\* The agents or models entry n of d after the Call Record m
FloatFoldInto(d, n, m) ==
    LET old == IF n \in DOMAIN d THEN d[n]
               ELSE [calls |-> 0, tokens |-> 0, cost |-> FloatZero]
    IN  [k \in DOMAIN d \cup {n} |->
            IF k = n
            THEN [calls |-> old.calls + 1,
                  tokens |-> old.tokens + m.total_tokens,
                  cost |-> FloatAdd(old.cost, m.total_cost)]
            ELSE d[k]]

\* _update_session on the mapping value v (lines 206-253)
update_session_float(v, m) ==
    LET r == IF m.session_id \in DOMAIN v THEN v[m.session_id]
             ELSE [NewRollup(m) EXCEPT !.total_cost = FloatZero]
    IN  [s \in DOMAIN v \cup {m.session_id} |->
            IF s = m.session_id
            THEN [r EXCEPT !.last_update = m.timestamp,
                           !.total_calls = @ + 1,
                           !.total_tokens = @ + m.total_tokens,
                           !.total_cost = FloatAdd(@, m.total_cost),
                           !.agents = FloatFoldInto(@, m.agent_name, m),
                           !.models = FloatFoldInto(@, m.model, m)]
            ELSE v[s]]

\* self.session_costs.values(): the sessions in the order they were added
InsertionOrder(v) ==
    SortSeq(SetToSeq(DOMAIN v),
            LAMBDA a, b : v[a].start_time < v[b].start_time)

\* sum(xs) of floats, from the left
RECURSIVE FloatSum(_)
FloatSum(xs) ==
    IF xs = <<>> THEN FloatZero
    ELSE FloatAdd(FloatSum(SubSeq(xs, 1, Len(xs) - 1)), xs[Len(xs)])

\* get_total_cost (lines 271-273)
get_total_cost(v) ==
    LET ord == InsertionOrder(v)
    IN  FloatSum([i \in 1..Len(ord) |-> v[ord[i]].total_cost])

\* agent_totals / model_totals with float costs (lines 282-299)
FloatMergeBy(v, kind) ==
    [n \in UNION {DOMAIN v[s][kind] : s \in DOMAIN v} |->
        LET having == SelectSeq(InsertionOrder(v),
                                LAMBDA s : n \in DOMAIN v[s][kind])
            held == {having[i] : i \in 1..Len(having)}
        IN  [calls |-> SumOver(held, [s \in held |-> v[s][kind][n].calls]),
             tokens |-> SumOver(held, [s \in held |-> v[s][kind][n].tokens]),
             cost |-> FloatSum([i \in 1..Len(having) |->
                                   v[having[i]][kind][n].cost])]]

\* A summary whose total_cost is the sum as get_total_cost returns it
generate_summary_unrounded(v) ==
    [total_sessions |-> Cardinality(DOMAIN v),
     total_calls |-> SumTotals(v, "total_calls"),
     total_tokens |-> SumTotals(v, "total_tokens"),
     total_cost |-> get_total_cost(v),
     by_agent |-> FloatMergeBy(v, "agents"),
     by_model |-> FloatMergeBy(v, "models")]

\* generate_summary with float costs (lines 275-308)
generate_summary_float(v) ==
    [total_sessions |-> Cardinality(DOMAIN v),
     total_calls |-> SumTotals(v, "total_calls"),
     total_tokens |-> SumTotals(v, "total_tokens"),
     total_cost |-> FloatRound6(get_total_cost(v)),
     by_agent |-> FloatMergeBy(v, "agents"),
     by_model |-> FloatMergeBy(v, "models")]

\* A fresh engine: no session, a log with its header only, no snapshot
NewFloatTracker ==
    [session_costs |-> EmptyMap, rows |-> <<>>, saved |-> EmptyMap,
     now |-> 1, summary |-> EmptyMap, last_op |-> "init"]

\* No second CostTracker
NoEngine == [up |-> FALSE, session_costs |-> EmptyMap]

\* Python's None where a string is expected, and where a dict is expected
None == "None"
NoneDict == [none |-> TRUE]

\* TraceLogger.__init__ (lines 29-32); now counts datetime.now() readings,
\* uuids the identifiers uuid.uuid4() has produced, result is what the
\* last call returned and arg the response it was given
NewTraceLogger ==
    [traces |-> <<>>, current_workflow |-> None, current_trace_id |-> None,
     uuids |-> 0, now |-> 0, last_op |-> "init", result |-> None,
     arg |-> <<>>]

\* str(uuid.uuid4()): the n-th identifier, different from all before it
UuidPool == <<"uuid-1", "uuid-2", "uuid-3", "uuid-4", "uuid-5", "uuid-6">>

WorkflowNames == {"A", "B"}
UserInputs == {"scan"}
Statuses == {"completed", "failed"}
Errors == {None, "", "boom"}
TraceAgents == {"Planner"}
Activities == {"planning"}
ToolNames == {"nmap"}
Dicts == {NoneDict, EmptyMap, [k |-> "v"]}
Exceptions == {None, "ValueError"}

\* A string of n characters, each told by its position
Text(n) == [i \in 1..n |-> i]
ResponseLens ==
    {0, MaxResponseLen - 1, MaxResponseLen, MaxResponseLen + 1,
     2 * MaxResponseLen}

\* "x or {}" for a dict argument
OrEmpty(d) == IF d \in {NoneDict, EmptyMap} THEN EmptyMap ELSE d

\* "if x:" for an optional string
Truthy(x) == x \notin {None, ""}

\* A response cut after one character too many
TruncatedOneMore(response) ==
    IF Len(response) > MaxResponseLen
    THEN SubSeq(response, 1, MaxResponseLen + 1) ELSE response

\* response[:200] if len(response) > 200 else response (line 84)
Truncated(response) ==
    IF Len(response) > MaxResponseLen
    THEN SubSeq(response, 1, MaxResponseLen) ELSE response

\* TraceLogger.log_event on the logger value l (lines 34-42)
log_event(l, event_type, data) ==
    [l EXCEPT !.traces = Append(@, [type |-> event_type,
                                    timestamp |-> l.now + 1,
                                    data |-> data]),
              !.now = @ + 1]

----------------------------------------------------------------------------
\* The task-based CostTracker of src/utils/metrics/__init__.py

\* PRICING (lines 58-63), in units of 0.05 USD per 1M tokens
PRICING ==
    [k \in {"gpt-4o-mini", "gpt-4o", "claude-3-5-sonnet", "default"} |->
        CASE k = "gpt-4o-mini" -> [input |-> 3, output |-> 12]
          [] k = "gpt-4o" -> [input |-> 50, output |-> 200]
          [] k = "claude-3-5-sonnet" -> [input |-> 60, output |-> 300]
          [] k = "default" -> [input |-> 3, output |-> 12]]

TaskIds == {"t1", "t2", ""}
TaskModels == {"gpt-4o", "GPT-4o", "unknown-model-x"}
TaskTokens == {<<3, 2>>}

\* model.lower()
Lower(model) == IF model = "GPT-4o" THEN "gpt-4o" ELSE model

\* The cost log_llm_call computes, unrounded (lines 84-88)
TaskCost(model, input_tokens, output_tokens) ==
    LET pricing == IF Lower(model) \in DOMAIN PRICING
                   THEN PRICING[Lower(model)] ELSE PRICING["default"]
    IN  input_tokens * pricing.input + output_tokens * pricing.output

\* TaskMetrics(task_id, start_time, end_time), end_time 0 standing for None
TaskMetrics(task_id, start_time, end_time) ==
    [task_id |-> task_id, start_time |-> start_time, end_time |-> end_time,
     llm_calls |-> <<>>]

\* sum(len(t.llm_calls) for t in tasks.values()) (line 123)
NumCalls(tasks) ==
    SumOver(DOMAIN tasks, [k \in DOMAIN tasks |-> Len(tasks[k].llm_calls)])

\* The sum of field f over the calls of all tasks (lines 113-115)
SumCalls(tasks, f) ==
    SumOver(DOMAIN tasks,
            [k \in DOMAIN tasks |->
                SumOver(1..Len(tasks[k].llm_calls),
                        [i \in 1..Len(tasks[k].llm_calls) |->
                            tasks[k].llm_calls[i][f]])])

\* CostTracker.__init__ (lines 65-67); now counts the time.time() readings,
\* ops the calls made, logged the log_llm_call invocations since the last
\* reset that found an active task, result what the last call returned
NewTaskTracker ==
    [tasks |-> EmptyMap, current_task_id |-> None, now |-> 0, ops |-> 0,
     logged |-> 0, last_op |-> "init", result |-> None]

----------------------------------------------------------------------------
\* Init: a CostTracker constructed on an empty directory

InitEngine ==
    /\ up = TRUE
    /\ session_costs = EmptyMap
    /\ heapR = <<>>
    /\ heapT = <<>>
    /\ csv_file = [exists |-> TRUE, rows |-> <<CsvHeader>>]
    /\ session_file = NoFile
    /\ th = [t \in Threads |-> IdleThread]
    /\ clock = 1
    /\ ncalls = 0
    /\ errlog = [csv |-> 0, save |-> 0, load |-> 0]
    /\ sched = [last |-> 0, preempts |-> 0]
    /\ hist = [acked |-> ZeroAck, last_acked |-> "", csv_failed |-> FALSE,
               save_failed |-> FALSE, load_failed |-> FALSE,
               crashed |-> FALSE, boots |-> 0, boot |-> "first",
               since_boot |-> 0, at_stop |-> EmptyMap,
               loaded |-> "absent"]
    /\ rd = IdleReader
    /\ eng2 = NoEngine
    /\ tl = NewTraceLogger
    /\ ft = NewFloatTracker
    /\ tk = NewTaskTracker

Init == InitEngine /\ calc = NoCalc

\* A caller about to call calculate_cost with some arguments
\* An empty directory and no CostTracker yet
InitTwo ==
    /\ up = FALSE
    /\ session_costs = EmptyMap
    /\ heapR = <<>>
    /\ heapT = <<>>
    /\ csv_file = [exists |-> FALSE, rows |-> <<>>]
    /\ session_file = NoFile
    /\ th = [t \in Threads |-> IdleThread]
    /\ clock = 1
    /\ ncalls = 0
    /\ errlog = [csv |-> 0, save |-> 0, load |-> 0]
    /\ sched = [last |-> 0, preempts |-> 0]
    /\ hist = [acked |-> ZeroAck, last_acked |-> "", csv_failed |-> FALSE,
               save_failed |-> FALSE, load_failed |-> FALSE,
               crashed |-> FALSE, boots |-> 0, boot |-> "first",
               since_boot |-> 0, at_stop |-> EmptyMap,
               loaded |-> "absent"]
    /\ calc = NoCalc
    /\ rd = IdleReader
    /\ eng2 = NoEngine
    /\ tl = NewTraceLogger
    /\ ft = NewFloatTracker
    /\ tk = NewTaskTracker

InitCalc ==
    /\ InitEngine
    /\ \E model \in CalcModels, input_tokens \in CalcTokens,
          output_tokens \in CalcTokens :
          calc = [NoCalc EXCEPT !.model = model,
                                !.input_tokens = input_tokens,
                                !.output_tokens = output_tokens]

----------------------------------------------------------------------------
\* track_call: costs and the Call Record (lines 153-170)

TrackCallFrom(t, limit, sessions, agents, models, tokens, keep_pre) ==
    /\ up
    /\ th[t].pc = "idle"
    /\ Runs(t)
    /\ sched' = Sched(t)
    /\ UNCHANGED elsewhere
    /\ ncalls < limit
    /\ \E session_id \in sessions, agent_name \in agents,
          model \in models, provider \in Providers, tok \in tokens :
          LET costs == calculate_cost(model, tok[1], tok[2])
              m == LLMCallMetrics(clock, session_id, agent_name, model,
                                  provider, tok[1], tok[2], costs, 0)
          IN  th' = [th EXCEPT ![t] =
                        [IdleThread EXCEPT !.pc = "log", !.metrics = m,
                                           !.pre = IF keep_pre
                                                   THEN RollupOr(Live, m)
                                                   ELSE @]]
    /\ clock' = clock + 1
    /\ ncalls' = ncalls + 1
    /\ hist' = [hist EXCEPT !.since_boot = @ + 1]
    /\ UNCHANGED <<up, session_costs, heapR, heapT, csv_file, session_file,
                   errlog>>

\* A call by the only caller, who waits for each call to return
track_call_begin(t) ==
    /\ TrackCallFrom(t, MaxCalls, SessionIds, AgentNames, ModelNames,
                     TokenPairs, TRUE)
    /\ UNCHANGED rd

\* A call of the only caller where file operations may fail
track_call_faulty(t) ==
    /\ TrackCallFrom(t, MaxFaultCalls, SessionIds, FaultAgentNames,
                     FaultModelNames, FaultTokenPairs, TRUE)
    /\ UNCHANGED rd

\* A call of the only caller, with counts of either sign
track_call_any(t) ==
    /\ TrackCallFrom(t, MaxCrashCalls, SessionIds, FaultAgentNames,
                     FaultModelNames, AnyTokenPairs, TRUE)
    /\ UNCHANGED rd

\* The call of one of several concurrent callers, each calling once
track_call_concurrent(t) ==
    /\ th[t].result.kind = "none"
    /\ TrackCallFrom(t, NThreads, SessionIds, ConcAgentNames, ConcModelNames,
                     ConcTokenPairs, FALSE)
    /\ UNCHANGED rd

\* _log_to_csv: open(csv_file, 'a') and writerow (lines 186-202)
log_to_csv(t) ==
    /\ th[t].pc = "log"
    /\ Runs(t)
    /\ sched' = Sched(t)
    /\ UNCHANGED <<elsewhere, rd>>
    /\ csv_file' = [exists |-> TRUE,
                    rows |-> Append(csv_file.rows, CsvRow(Metrics(t)))]
    /\ th' = Goto(t, "chk_sess")
    /\ UNCHANGED <<up, session_costs, heapR, heapT, session_file, clock,
                   ncalls, errlog, hist>>

\* The open or the write raises and the exception leaves track_call
log_to_csv_fail_raises(t) ==
    /\ th[t].pc = "log"
    /\ Runs(t)
    /\ sched' = Sched(t)
    /\ UNCHANGED <<elsewhere, rd>>
    /\ errlog' = [errlog EXCEPT !.csv = @ + 1]
    /\ th' = [th EXCEPT ![t].pc = "ret", ![t].csv_ok = FALSE]
    /\ hist' = [hist EXCEPT !.csv_failed = TRUE]
    /\ UNCHANGED <<up, session_costs, heapR, heapT, csv_file, session_file,
                   clock, ncalls>>

\* _log_to_csv: the open or the write raises; except logs it (lines 203-204)
log_to_csv_fail(t) ==
    /\ th[t].pc = "log"
    /\ Runs(t)
    /\ sched' = Sched(t)
    /\ UNCHANGED <<elsewhere, rd>>
    /\ errlog' = [errlog EXCEPT !.csv = @ + 1]
    /\ th' = [th EXCEPT ![t].pc = "chk_sess", ![t].csv_ok = FALSE]
    /\ hist' = [hist EXCEPT !.csv_failed = TRUE]
    /\ UNCHANGED <<up, session_costs, heapR, heapT, csv_file, session_file,
                   clock, ncalls>>

----------------------------------------------------------------------------
\* _update_session, statement by statement

\* if session_id not in self.session_costs (line 210)
us_check_session(t) ==
    /\ th[t].pc = "chk_sess"
    /\ Runs(t)
    /\ sched' = Sched(t)
    /\ UNCHANGED <<elsewhere, rd>>
    /\ th' = Goto(t, IF Metrics(t).session_id \in DOMAIN session_costs
                     THEN "get_sess" ELSE "new_sess")
    /\ UNCHANGED <<up, session_costs, heapR, heapT, csv_file, session_file,
                   clock, ncalls, errlog, hist>>

\* self.session_costs[session_id] = {...} (lines 211-220)
us_create_session(t) ==
    /\ th[t].pc = "new_sess"
    /\ Runs(t)
    /\ sched' = Sched(t)
    /\ UNCHANGED <<elsewhere, rd>>
    /\ heapR' = Append(heapR, NewRollup(Metrics(t)))
    /\ session_costs' =
          [s \in DOMAIN session_costs \cup {Metrics(t).session_id} |->
              IF s = Metrics(t).session_id THEN Len(heapR) + 1
              ELSE session_costs[s]]
    /\ th' = Goto(t, "get_sess")
    /\ UNCHANGED <<up, heapT, csv_file, session_file, clock, ncalls, errlog,
                   hist>>

\* session = self.session_costs[session_id] (line 222)
us_get_session(t) ==
    /\ th[t].pc = "get_sess"
    /\ Runs(t)
    /\ sched' = Sched(t)
    /\ UNCHANGED <<elsewhere, rd>>
    /\ th' = [th EXCEPT ![t].pc = "set_last",
                        ![t].session = session_costs[Metrics(t).session_id]]
    /\ UNCHANGED <<up, session_costs, heapR, heapT, csv_file, session_file,
                   clock, ncalls, errlog, hist>>

\* session["last_update"] = metrics.timestamp (line 223)
us_set_last_update(t) ==
    /\ th[t].pc = "set_last"
    /\ Runs(t)
    /\ sched' = Sched(t)
    /\ UNCHANGED <<elsewhere, rd>>
    /\ heapR' = [heapR EXCEPT ![th[t].session].last_update =
                                  Metrics(t).timestamp]
    /\ th' = [th EXCEPT ![t].pc = "rd_total", ![t].fld = 1]
    /\ UNCHANGED <<up, session_costs, heapT, csv_file, session_file, clock,
                   ncalls, errlog, hist>>

\* session[f] += d: the load of session[f] (lines 224-226)
us_read_total(t) ==
    /\ th[t].pc = "rd_total"
    /\ Runs(t)
    /\ sched' = Sched(t)
    /\ UNCHANGED <<elsewhere, rd>>
    /\ th' = [th EXCEPT ![t].pc = "wr_total",
                        ![t].tmp = heapR[th[t].session][TotalField[th[t].fld]]]
    /\ UNCHANGED <<up, session_costs, heapR, heapT, csv_file, session_file,
                   clock, ncalls, errlog, hist>>

\* session[f] += d: the store of the sum (lines 224-226)
us_write_total(t) ==
    /\ th[t].pc = "wr_total"
    /\ Runs(t)
    /\ sched' = Sched(t)
    /\ UNCHANGED <<elsewhere, rd>>
    /\ heapR' = [heapR EXCEPT ![th[t].session][TotalField[th[t].fld]] =
                                  th[t].tmp + Delta(Metrics(t), th[t].fld)]
    /\ th' = IF th[t].fld < 3
             THEN [th EXCEPT ![t].pc = "rd_total", ![t].fld = @ + 1]
             ELSE Goto(t, "chk_agent")
    /\ UNCHANGED <<up, session_costs, heapT, csv_file, session_file, clock,
                   ncalls, errlog, hist>>

\* if agent not in session["agents"] (line 230)
us_check_agent(t) ==
    /\ th[t].pc = "chk_agent"
    /\ Runs(t)
    /\ sched' = Sched(t)
    /\ UNCHANGED <<elsewhere, rd>>
    /\ th' = [th EXCEPT ![t].fld = 1,
                        ![t].pc = IF Metrics(t).agent_name \in
                                       DOMAIN heapR[th[t].session].agents
                                  THEN "rd_agent" ELSE "new_agent"]
    /\ UNCHANGED <<up, session_costs, heapR, heapT, csv_file, session_file,
                   clock, ncalls, errlog, hist>>

\* A creation that replaces the agents dict by one with the new entry only
us_create_agent_alone(t) ==
    /\ th[t].pc = "new_agent"
    /\ Runs(t)
    /\ sched' = Sched(t)
    /\ UNCHANGED <<elsewhere, rd>>
    /\ heapT' = Append(heapT, ZeroTriple)
    /\ heapR' = [heapR EXCEPT ![th[t].session].agents =
                    [a \in {Metrics(t).agent_name} |-> Len(heapT) + 1]]
    /\ th' = Goto(t, "rd_agent")
    /\ UNCHANGED <<up, session_costs, csv_file, session_file, clock, ncalls,
                   errlog, hist>>

\* session["agents"][agent] = {"calls": 0, ...} (lines 231-235)
us_create_agent(t) ==
    /\ th[t].pc = "new_agent"
    /\ Runs(t)
    /\ sched' = Sched(t)
    /\ UNCHANGED <<elsewhere, rd>>
    /\ heapT' = Append(heapT, ZeroTriple)
    /\ heapR' = [heapR EXCEPT ![th[t].session].agents =
                    [a \in DOMAIN @ \cup {Metrics(t).agent_name} |->
                        IF a = Metrics(t).agent_name THEN Len(heapT) + 1
                        ELSE @[a]]]
    /\ th' = Goto(t, "rd_agent")
    /\ UNCHANGED <<up, session_costs, csv_file, session_file, clock, ncalls,
                   errlog, hist>>

\* session["agents"][agent][f] += d: the dict and the load (lines 236-238)
us_read_agent(t) ==
    /\ th[t].pc = "rd_agent"
    /\ Runs(t)
    /\ sched' = Sched(t)
    /\ UNCHANGED <<elsewhere, rd>>
    /\ LET c == heapR[th[t].session].agents[Metrics(t).agent_name]
       IN  th' = [th EXCEPT ![t].pc = "wr_agent", ![t].cont = c,
                            ![t].tmp = heapT[c][TripleField[th[t].fld]]]
    /\ UNCHANGED <<up, session_costs, heapR, heapT, csv_file, session_file,
                   clock, ncalls, errlog, hist>>

\* A store that adds 1 to every field of the agent's dict
us_write_agent_by_one(t) ==
    /\ th[t].pc = "wr_agent"
    /\ Runs(t)
    /\ sched' = Sched(t)
    /\ UNCHANGED <<elsewhere, rd>>
    /\ heapT' = [heapT EXCEPT ![th[t].cont][TripleField[th[t].fld]] =
                                  th[t].tmp + 1]
    /\ th' = IF th[t].fld < 3
             THEN [th EXCEPT ![t].pc = "rd_agent", ![t].fld = @ + 1]
             ELSE Goto(t, "chk_model")
    /\ UNCHANGED <<up, session_costs, heapR, csv_file, session_file, clock,
                   ncalls, errlog, hist>>

\* session["agents"][agent][f] += d: the store (lines 236-238)
us_write_agent(t) ==
    /\ th[t].pc = "wr_agent"
    /\ Runs(t)
    /\ sched' = Sched(t)
    /\ UNCHANGED <<elsewhere, rd>>
    /\ heapT' = [heapT EXCEPT ![th[t].cont][TripleField[th[t].fld]] =
                                  th[t].tmp + Delta(Metrics(t), th[t].fld)]
    /\ th' = IF th[t].fld < 3
             THEN [th EXCEPT ![t].pc = "rd_agent", ![t].fld = @ + 1]
             ELSE Goto(t, "chk_model")
    /\ UNCHANGED <<up, session_costs, heapR, csv_file, session_file, clock,
                   ncalls, errlog, hist>>

\* if model not in session["models"] (line 242)
us_check_model(t) ==
    /\ th[t].pc = "chk_model"
    /\ Runs(t)
    /\ sched' = Sched(t)
    /\ UNCHANGED <<elsewhere, rd>>
    /\ th' = [th EXCEPT ![t].fld = 1,
                        ![t].pc = IF Metrics(t).model \in
                                       DOMAIN heapR[th[t].session].models
                                  THEN "rd_model" ELSE "new_model"]
    /\ UNCHANGED <<up, session_costs, heapR, heapT, csv_file, session_file,
                   clock, ncalls, errlog, hist>>

\* session["models"][model] = {"calls": 0, ...} (lines 243-247)
us_create_model(t) ==
    /\ th[t].pc = "new_model"
    /\ Runs(t)
    /\ sched' = Sched(t)
    /\ UNCHANGED <<elsewhere, rd>>
    /\ heapT' = Append(heapT, ZeroTriple)
    /\ heapR' = [heapR EXCEPT ![th[t].session].models =
                    [x \in DOMAIN @ \cup {Metrics(t).model} |->
                        IF x = Metrics(t).model THEN Len(heapT) + 1
                        ELSE @[x]]]
    /\ th' = Goto(t, "rd_model")
    /\ UNCHANGED <<up, session_costs, csv_file, session_file, clock, ncalls,
                   errlog, hist>>

\* session["models"][model][f] += d: the dict and the load (lines 248-250)
us_read_model(t) ==
    /\ th[t].pc = "rd_model"
    /\ Runs(t)
    /\ sched' = Sched(t)
    /\ UNCHANGED <<elsewhere, rd>>
    /\ LET c == heapR[th[t].session].models[Metrics(t).model]
       IN  th' = [th EXCEPT ![t].pc = "wr_model", ![t].cont = c,
                            ![t].tmp = heapT[c][TripleField[th[t].fld]]]
    /\ UNCHANGED <<up, session_costs, heapR, heapT, csv_file, session_file,
                   clock, ncalls, errlog, hist>>

\* session["models"][model][f] += d: the store (lines 248-250)
us_write_model(t) ==
    /\ th[t].pc = "wr_model"
    /\ Runs(t)
    /\ sched' = Sched(t)
    /\ UNCHANGED <<elsewhere, rd>>
    /\ heapT' = [heapT EXCEPT ![th[t].cont][TripleField[th[t].fld]] =
                                  th[t].tmp + Delta(Metrics(t), th[t].fld)]
    /\ th' = IF th[t].fld < 3
             THEN [th EXCEPT ![t].pc = "rd_model", ![t].fld = @ + 1]
             ELSE Goto(t, "save_open")
    /\ UNCHANGED <<up, session_costs, heapR, csv_file, session_file, clock,
                   ncalls, errlog, hist>>

----------------------------------------------------------------------------
\* _save_session_costs

\* open(self.session_file, 'w'): the file is truncated (line 258)
save_open(t) ==
    /\ th[t].pc = "save_open"
    /\ Runs(t)
    /\ sched' = Sched(t)
    /\ UNCHANGED <<elsewhere, rd>>
    /\ session_file' = PartialFile
    /\ th' = Goto(t, "save_dump")
    /\ UNCHANGED <<up, session_costs, heapR, heapT, csv_file, clock, ncalls,
                   errlog, hist>>

\* open raises: the file is as it was; except logs it (lines 260-261)
save_open_fail(t) ==
    /\ th[t].pc = "save_open"
    /\ Runs(t)
    /\ sched' = Sched(t)
    /\ UNCHANGED <<elsewhere, rd>>
    /\ errlog' = [errlog EXCEPT !.save = @ + 1]
    /\ th' = [th EXCEPT ![t].pc = "ret", ![t].save_ok = FALSE]
    /\ hist' = [hist EXCEPT !.save_failed = TRUE]
    /\ UNCHANGED <<up, session_costs, heapR, heapT, csv_file, session_file,
                   clock, ncalls>>

\* A dump of the rollup of the session just updated only
save_dump_one(t) ==
    /\ th[t].pc = "save_dump"
    /\ Runs(t)
    /\ sched' = Sched(t)
    /\ UNCHANGED <<elsewhere, rd>>
    /\ th' = [th EXCEPT
                 ![t].pc = "save_close",
                 ![t].doc =
                     json_dump([s \in {Metrics(t).session_id} |-> Live[s]])]
    /\ UNCHANGED <<up, session_costs, heapR, heapT, csv_file, session_file,
                   clock, ncalls, errlog, hist>>

\* json.dump(self.session_costs, f): the mapping is serialised into the
\* buffer of the file object f (line 259)
save_dump(t) ==
    /\ th[t].pc = "save_dump"
    /\ Runs(t)
    /\ sched' = Sched(t)
    /\ UNCHANGED <<elsewhere, rd>>
    /\ th' = [th EXCEPT ![t].pc = "save_close", ![t].doc = json_dump(Live)]
    /\ UNCHANGED <<up, session_costs, heapR, heapT, csv_file, session_file,
                   clock, ncalls, errlog, hist>>

\* The end of the with block: f is closed, its buffer is written at the
\* start of the file (lines 258-259)
save_close(t) ==
    /\ th[t].pc = "save_close"
    /\ Runs(t)
    /\ sched' = Sched(t)
    /\ UNCHANGED <<elsewhere, rd>>
    /\ session_file' = th[t].doc
    /\ th' = [th EXCEPT ![t].pc = "ret", ![t].doc = NoFile]
    /\ UNCHANGED <<up, session_costs, heapR, heapT, csv_file, clock, ncalls,
                   errlog, hist>>

\* json.dump raises part-way: a partial document is left (lines 260-261)
save_dump_fail(t) ==
    /\ th[t].pc = "save_dump"
    /\ Runs(t)
    /\ sched' = Sched(t)
    /\ UNCHANGED <<elsewhere, rd>>
    /\ session_file' = PartialFile
    /\ errlog' = [errlog EXCEPT !.save = @ + 1]
    /\ th' = [th EXCEPT ![t].pc = "ret", ![t].save_ok = FALSE]
    /\ hist' = [hist EXCEPT !.save_failed = TRUE]
    /\ UNCHANGED <<up, session_costs, heapR, heapT, csv_file, clock, ncalls>>

\* A return that reports a failed append to the caller
track_call_return_error(t) ==
    /\ th[t].pc = "ret"
    /\ Runs(t)
    /\ sched' = Sched(t)
    /\ UNCHANGED <<elsewhere, rd>>
    /\ th' = [th EXCEPT ![t].pc = "idle",
                        ![t].result =
                            IF th[t].csv_ok
                            THEN [kind |-> "metrics", value |-> Metrics(t)]
                            ELSE [kind |-> "PersistenceError",
                                  value |-> NoMetrics]]
    /\ hist' = [hist EXCEPT
                   !.acked[Metrics(t).session_id] =
                       [calls |-> @.calls + 1,
                        tokens |-> @.tokens + Metrics(t).total_tokens,
                        cost |-> @.cost + Metrics(t).total_cost],
                   !.last_acked = Metrics(t).session_id]
    /\ UNCHANGED <<up, session_costs, heapR, heapT, csv_file, session_file,
                   clock, ncalls, errlog>>

\* return metrics (line 182)
track_call_return(t) ==
    /\ th[t].pc = "ret"
    /\ Runs(t)
    /\ sched' = Sched(t)
    /\ UNCHANGED <<elsewhere, rd>>
    /\ th' = [th EXCEPT ![t].pc = "idle",
                        ![t].result = [kind |-> "metrics",
                                       value |-> Metrics(t)]]
    /\ hist' = [hist EXCEPT
                   !.acked[Metrics(t).session_id] =
                       [calls |-> @.calls + 1,
                        tokens |-> @.tokens + Metrics(t).total_tokens,
                        cost |-> @.cost + Metrics(t).total_cost],
                   !.last_acked = Metrics(t).session_id]
    /\ UNCHANGED <<up, session_costs, heapR, heapT, csv_file, session_file,
                   clock, ncalls, errlog>>

----------------------------------------------------------------------------
\* The process: exit, kill, and a new CostTracker on the same directory

Stop(kind) ==
    /\ up
    /\ hist.boots < MaxRestarts
    /\ up' = FALSE
    /\ session_costs' = EmptyMap
    /\ heapR' = <<>>
    /\ heapT' = <<>>
    /\ th' = [t \in Threads |-> IdleThread]
    /\ hist' = [hist EXCEPT !.boots = @ + 1, !.boot = kind,
                            !.since_boot = 0, !.at_stop = Live,
                            !.crashed = @ \/ kind = "crash"]
    /\ UNCHANGED <<csv_file, session_file, clock, ncalls, errlog, sched,
                   elsewhere, rd>>

\* The process ends between calls
shutdown == AllIdle /\ Stop("restart")

\* The process is killed while a track_call is running
crash == ~AllIdle /\ Stop("crash")

\* A constructor that lets the exception of json.load escape
construct_raises ==
    /\ ~up
    /\ IF session_file.state = "partial"
       THEN /\ hist' = [hist EXCEPT !.load_failed = TRUE,
                                    !.loaded = "failed"]
            /\ hist.loaded # "failed"
            /\ UNCHANGED <<up, session_costs, heapR, heapT, errlog>>
       ELSE /\ up' = TRUE
            /\ LET l == IF session_file.state = "json"
                        THEN Loaded(json_load(session_file))
                        ELSE [sc |-> EmptyMap, hR |-> <<>>, hT |-> <<>>]
               IN  /\ session_costs' = l.sc
                   /\ heapR' = l.hR
                   /\ heapT' = l.hT
            /\ hist' = [hist EXCEPT !.loaded = session_file.state]
            /\ UNCHANGED errlog
    /\ csv_file' = csv_after_init(csv_file)
    /\ UNCHANGED <<session_file, th, clock, ncalls, sched, elsewhere, rd>>

\* CostTracker.__init__ (lines 66-89) and _init_csv (lines 91-108)
construct ==
    /\ ~up
    /\ up' = TRUE
    /\ IF session_file.state = "absent"
       THEN /\ session_costs' = EmptyMap
            /\ heapR' = <<>>
            /\ heapT' = <<>>
            /\ hist' = [hist EXCEPT !.loaded = "absent"]
            /\ UNCHANGED errlog
       ELSE IF session_file.state = "json"
       THEN LET l == Loaded(json_load(session_file))
            IN  /\ session_costs' = l.sc
                /\ heapR' = l.hR
                /\ heapT' = l.hT
                /\ hist' = [hist EXCEPT !.loaded = "json"]
                /\ UNCHANGED errlog
       ELSE /\ session_costs' = EmptyMap
            /\ heapR' = <<>>
            /\ heapT' = <<>>
            /\ errlog' = [errlog EXCEPT !.load = @ + 1]
            /\ hist' = [hist EXCEPT !.load_failed = TRUE, !.loaded = "failed"]
    /\ csv_file' = csv_after_init(csv_file)
    /\ UNCHANGED <<session_file, th, clock, ncalls, sched, elsewhere, rd>>

----------------------------------------------------------------------------
\* Specifications

UpdateStep(t) ==
    \/ us_check_session(t)
    \/ us_create_session(t)
    \/ us_get_session(t)
    \/ us_set_last_update(t)
    \/ us_read_total(t)
    \/ us_write_total(t)
    \/ us_check_agent(t)
    \/ us_create_agent(t)
    \/ us_read_agent(t)
    \/ us_write_agent(t)
    \/ us_check_model(t)
    \/ us_create_model(t)
    \/ us_read_model(t)
    \/ us_write_model(t)

CallStep(t) ==
    \/ log_to_csv(t)
    \/ UpdateStep(t)
    \/ save_open(t)
    \/ save_dump(t)
    \/ save_close(t)
    \/ track_call_return(t)

FaultStep(t) ==
    \/ log_to_csv_fail(t)
    \/ save_open_fail(t)
    \/ save_dump_fail(t)

\* One caller, every file operation succeeds, the process may exit and restart
Next ==
    \/ track_call_begin(1)
    \/ CallStep(1)
    \/ shutdown
    \/ construct

Spec == Init /\ [][Next]_vars

\* One caller; file operations may fail and the process may be killed
NextFault ==
    \/ track_call_faulty(1)
    \/ CallStep(1)
    \/ FaultStep(1)
    \/ shutdown
    \/ crash
    \/ construct

SpecFault == Init /\ [][NextFault]_vars

\* One caller, every file operation succeeds, the process may be killed
NextCrash ==
    \/ track_call_any(1)
    \/ CallStep(1)
    \/ shutdown
    \/ crash
    \/ construct

SpecCrash == Init /\ [][NextCrash]_vars

\* Concurrent callers of one engine, every file operation succeeds
NextConc ==
    \E t \in Threads :
        \/ track_call_concurrent(t)
        \/ CallStep(t)

SpecConc == Init /\ [][NextConc]_vars

----------------------------------------------------------------------------
\* A second CostTracker on the same directory, used between the steps of
\* the first; its calls run without interruption

\* CostTracker.__init__ of the second engine (lines 66-89)
construct_second ==
    /\ ~eng2.up
    /\ eng2' = [up |-> TRUE,
                session_costs |-> IF session_file.state = "json"
                                  THEN json_load(session_file)
                                  ELSE EmptyMap]
    /\ errlog' = IF session_file.state = "partial"
                 THEN [errlog EXCEPT !.load = @ + 1] ELSE errlog
    /\ csv_file' = csv_after_init(csv_file)
    /\ UNCHANGED <<up, session_costs, heapR, heapT, session_file, th, clock,
                   ncalls, sched, hist, calc, rd, tl, ft, tk>>

\* track_call of the second engine (lines 127-182)
track_call_second ==
    /\ eng2.up
    /\ ncalls < MaxCalls
    /\ \E session_id \in SessionIds, agent_name \in FaultAgentNames,
          model \in FaultModelNames, provider \in Providers,
          tok \in FaultTokenPairs :
          LET costs == calculate_cost(model, tok[1], tok[2])
              m == LLMCallMetrics(clock, session_id, agent_name, model,
                                  provider, tok[1], tok[2], costs, 0)
              v == update_session(eng2.session_costs, m)
          IN  /\ csv_file' = [exists |-> TRUE,
                              rows |-> Append(csv_file.rows, CsvRow(m))]
              /\ eng2' = [eng2 EXCEPT !.session_costs = v]
              /\ session_file' = json_dump(v)
    /\ clock' = clock + 1
    /\ ncalls' = ncalls + 1
    /\ UNCHANGED <<up, session_costs, heapR, heapT, th, errlog, sched, hist,
                   calc, rd, tl, ft, tk>>

\* Two engines on one directory, the first also restarting
NextTwo ==
    \/ track_call_faulty(1)
    \/ CallStep(1)
    \/ shutdown
    \/ construct
    \/ construct_second
    \/ track_call_second

SpecTwo == InitTwo /\ [][NextTwo]_vars

----------------------------------------------------------------------------
\* The engine with float costs

\* track_call (lines 127-182): the row, the update and the snapshot
track_call_float ==
    /\ Len(ft.rows) < MaxCalls
    /\ \E session_id \in SessionIds, agent_name \in AgentNames,
          model \in ModelNames, provider \in Providers, tok \in TokenPairs :
          LET c == calculate_cost(model, tok[1], tok[2])
              costs == [input_cost |-> FromMicro(c.input_cost),
                        output_cost |-> FromMicro(c.output_cost),
                        total_cost |-> FromMicro(c.total_cost)]
              m == LLMCallMetrics(ft.now, session_id, agent_name, model,
                                  provider, tok[1], tok[2], costs, 0)
              v == update_session_float(ft.session_costs, m)
          IN  ft' = [ft EXCEPT !.session_costs = v,
                               !.rows = Append(@, CsvRow(m)),
                               !.saved = v,
                               !.now = @ + 1,
                               !.summary = EmptyMap,
                               !.last_op = "track_call"]
    /\ UNCHANGED <<up, session_costs, heapR, heapT, csv_file, session_file,
                   th, clock, ncalls, errlog, sched, hist, calc, rd, eng2,
                   tl, tk>>

\* A caller of generate_summary keeps what it returns (lines 275-308)
generate_summary_call ==
    /\ ft.last_op # "generate_summary"
    /\ ft' = [ft EXCEPT !.summary = generate_summary_float(ft.session_costs),
                        !.last_op = "generate_summary"]
    /\ UNCHANGED <<up, session_costs, heapR, heapT, csv_file, session_file,
                   th, clock, ncalls, errlog, sched, hist, calc, rd, eng2,
                   tl, tk>>

NextFloat ==
    \/ track_call_float
    \/ generate_summary_call

SpecFloat == Init /\ [][NextFloat]_vars

----------------------------------------------------------------------------
\* The task-based CostTracker

TaskUnchanged ==
    UNCHANGED <<up, session_costs, heapR, heapT, csv_file, session_file, th,
                clock, ncalls, errlog, sched, hist, calc, rd, eng2, tl, ft>>

\* CostTracker.start_task (lines 69-76)
start_task(task_id) ==
    /\ tk.ops < MaxTaskOps
    /\ tk' = [tk EXCEPT
                 !.tasks = [k \in DOMAIN @ \cup {task_id} |->
                               IF k = task_id
                               THEN TaskMetrics(task_id, tk.now + 1, 0)
                               ELSE @[k]],
                 !.current_task_id = task_id,
                 !.now = @ + 1,
                 !.ops = @ + 1,
                 !.last_op = "start_task",
                 !.result = task_id]
    /\ TaskUnchanged

\* CostTracker.log_llm_call (lines 78-98)
log_llm_call(model, input_tokens, output_tokens) ==
    /\ tk.ops < MaxTaskOps
    /\ IF ~Truthy(tk.current_task_id)
       THEN tk' = [tk EXCEPT !.ops = @ + 1, !.last_op = "log_llm_call",
                             !.result = None]
       ELSE IF tk.current_task_id \notin DOMAIN tk.tasks
       THEN tk' = [tk EXCEPT !.ops = @ + 1, !.last_op = "log_llm_call",
                             !.result = None]
       ELSE LET call == [model |-> model, input_tokens |-> input_tokens,
                         output_tokens |-> output_tokens,
                         timestamp |-> tk.now + 1,
                         cost |-> TaskCost(model, input_tokens,
                                           output_tokens)]
            IN  tk' = [tk EXCEPT
                          !.tasks[tk.current_task_id].llm_calls =
                              Append(@, call),
                          !.now = @ + 1,
                          !.ops = @ + 1,
                          !.logged = @ + 1,
                          !.last_op = "log_llm_call",
                          !.result = None]
    /\ TaskUnchanged

\* CostTracker.end_task (lines 100-109)
end_task(task_id) ==
    /\ tk.ops < MaxTaskOps
    /\ IF task_id \in DOMAIN tk.tasks
       THEN LET ended == [tk.tasks[task_id] EXCEPT !.end_time = tk.now + 1]
            IN  tk' = [tk EXCEPT
                          !.tasks[task_id] = ended,
                          !.current_task_id =
                              IF @ = task_id THEN None ELSE @,
                          !.now = @ + 1,
                          !.ops = @ + 1,
                          !.last_op = "end_task",
                          !.result = ended]
       ELSE tk' = [tk EXCEPT
                      !.now = @ + 2,
                      !.ops = @ + 1,
                      !.last_op = "end_task",
                      !.result = TaskMetrics(task_id, tk.now + 1,
                                             tk.now + 2)]
    /\ TaskUnchanged

\* CostTracker.get_stats (lines 111-124)
get_stats ==
    /\ tk.last_op # "get_stats"
    /\ LET total_input == SumCalls(tk.tasks, "input_tokens")
           total_output == SumCalls(tk.tasks, "output_tokens")
       IN  tk' = [tk EXCEPT
                     !.last_op = "get_stats",
                     !.result =
                         [total_input_tokens |-> total_input,
                          total_output_tokens |-> total_output,
                          total_tokens |-> total_input + total_output,
                          total_cost |-> SumCalls(tk.tasks, "cost"),
                          num_tasks |-> Cardinality(DOMAIN tk.tasks),
                          num_calls |-> NumCalls(tk.tasks)]]
    /\ TaskUnchanged

\* CostTracker.reset (lines 126-129)
reset ==
    /\ tk.ops < MaxTaskOps
    /\ tk' = [tk EXCEPT !.tasks = EmptyMap, !.current_task_id = None,
                        !.ops = @ + 1, !.logged = 0, !.last_op = "reset",
                        !.result = None]
    /\ TaskUnchanged

NextTask ==
    \/ \E task_id \in TaskIds : start_task(task_id)
    \/ \E model \in TaskModels, tok \in TaskTokens :
          log_llm_call(model, tok[1], tok[2])
    \/ \E task_id \in TaskIds : end_task(task_id)
    \/ get_stats
    \/ reset

SpecTask == Init /\ [][NextTask]_vars

----------------------------------------------------------------------------
\* TraceLogger

TraceUnchanged ==
    UNCHANGED <<up, session_costs, heapR, heapT, csv_file, session_file, th,
                clock, ncalls, errlog, sched, hist, calc, rd, eng2, ft, tk>>

\* A start that keeps the identity of a workflow still active
start_workflow_keeps_active(workflow_name, user_input) ==
    /\ tl.now < MaxEvents
    /\ LET trace_id == UuidPool[tl.uuids + 1]
           l == IF tl.current_workflow = None
                THEN [tl EXCEPT !.current_trace_id = trace_id,
                                !.current_workflow = workflow_name]
                ELSE tl
       IN  tl' = [log_event(l, "workflow_start",
                            [trace_id |-> trace_id,
                             workflow_name |-> workflow_name,
                             user_input |-> user_input])
                     EXCEPT !.uuids = @ + 1, !.last_op = "start_workflow",
                            !.result = trace_id]
    /\ TraceUnchanged

\* TraceLogger.start_workflow (lines 44-56)
start_workflow(workflow_name, user_input) ==
    /\ tl.now < MaxEvents
    /\ LET trace_id == UuidPool[tl.uuids + 1]
           l == [tl EXCEPT !.current_trace_id = trace_id,
                           !.current_workflow = workflow_name]
       IN  tl' = [log_event(l, "workflow_start",
                            [trace_id |-> trace_id,
                             workflow_name |-> workflow_name,
                             user_input |-> user_input])
                     EXCEPT !.uuids = @ + 1, !.last_op = "start_workflow",
                            !.result = trace_id]
    /\ TraceUnchanged

\* TraceLogger.end_workflow (lines 58-78)
end_workflow(status, error) ==
    /\ tl.now < MaxEvents
    /\ LET base == [trace_id |-> tl.current_trace_id,
                    workflow_name |-> tl.current_workflow,
                    status |-> status]
           trace_data == IF Truthy(error)
                         THEN [trace_id |-> base.trace_id,
                               workflow_name |-> base.workflow_name,
                               status |-> status, error |-> error]
                         ELSE base
           l == log_event(tl, "workflow_end", trace_data)
       IN  tl' = [l EXCEPT !.result = [trace_id |-> tl.current_trace_id,
                                       status |-> status,
                                       num_events |-> Len(l.traces)],
                           !.current_workflow = None,
                           !.last_op = "end_workflow"]
    /\ TraceUnchanged

\* TraceLogger.log_agent_response (lines 80-86)
log_agent_response(agent_name, response, metadata) ==
    /\ tl.now < MaxEvents
    /\ tl' = [log_event(tl, "agent_response",
                        [agent_name |-> agent_name,
                         response |-> Truncated(response),
                         metadata |-> OrEmpty(metadata)])
                 EXCEPT !.last_op = "log_agent_response", !.result = None,
                        !.arg = response]
    /\ TraceUnchanged

\* TraceLogger.log_agent_activity (lines 88-93)
log_agent_activity(agent_name, activity) ==
    /\ tl.now < MaxEvents
    /\ tl' = [log_event(tl, "agent_start",
                        [agent_name |-> agent_name, activity |-> activity])
                 EXCEPT !.last_op = "log_agent_activity", !.result = None]
    /\ TraceUnchanged

\* TraceLogger.log_tool_execution (lines 95-100)
log_tool_execution(tool_name, args) ==
    /\ tl.now < MaxEvents
    /\ tl' = [log_event(tl, "tool_start",
                        [tool_name |-> tool_name, args |-> args])
                 EXCEPT !.last_op = "log_tool_execution", !.result = None]
    /\ TraceUnchanged

\* TraceLogger.log_error (lines 102-112)
log_error(error_message, exception, context) ==
    /\ tl.now < MaxEvents
    /\ LET error_data ==
               IF exception # None
               THEN [error |-> error_message, context |-> OrEmpty(context),
                     exception_type |-> exception]
               ELSE [error |-> error_message, context |-> OrEmpty(context)]
       IN  tl' = [log_event(tl, "error", error_data)
                     EXCEPT !.last_op = "log_error", !.result = None]
    /\ TraceUnchanged

\* TraceLogger.clear_traces (lines 118-122)
clear_traces ==
    /\ tl' = [tl EXCEPT !.traces = <<>>, !.current_workflow = None,
                        !.current_trace_id = None,
                        !.last_op = "clear_traces", !.result = None]
    /\ TraceUnchanged

NextTrace ==
    \/ \E workflow_name \in WorkflowNames, user_input \in UserInputs :
          start_workflow(workflow_name, user_input)
    \/ \E status \in Statuses, error \in Errors : end_workflow(status, error)
    \/ \E agent_name \in TraceAgents, n \in ResponseLens, metadata \in Dicts :
          log_agent_response(agent_name, Text(n), metadata)
    \/ \E agent_name \in TraceAgents, activity \in Activities :
          log_agent_activity(agent_name, activity)
    \/ \E tool_name \in ToolNames, args \in Dicts :
          log_tool_execution(tool_name, args)
    \/ \E exception \in Exceptions, context \in Dicts :
          log_error("boom", exception, context)
    \/ clear_traces

SpecTrace == Init /\ [][NextTrace]_vars

----------------------------------------------------------------------------
\* Readers

\* get_session_cost: self.session_costs.get(session_id) (lines 263-265)
get_session_cost(session_id) ==
    /\ up
    /\ rd.pc = "idle"
    /\ rd' = [rd EXCEPT !.ref =
                 IF session_id \in DOMAIN session_costs
                 THEN [kind |-> "rollup", obj |-> session_costs[session_id]]
                 ELSE NoRef]
    /\ UNCHANGED <<up, session_costs, heapR, heapT, csv_file, session_file,
                   th, clock, ncalls, errlog, sched, hist, elsewhere>>

\* get_all_sessions: return self.session_costs (lines 267-269)
get_all_sessions ==
    /\ up
    /\ rd.pc = "idle"
    /\ rd' = [rd EXCEPT !.ref = [kind |-> "mapping", obj |-> 0]]
    /\ UNCHANGED <<up, session_costs, heapR, heapT, csv_file, session_file,
                   th, clock, ncalls, errlog, sched, hist, elsewhere>>

\* The reader assigns to the dict get_session_cost returned:
\* d["total_calls"] = 0
reader_write_rollup ==
    /\ up
    /\ rd.ref.kind = "rollup"
    /\ rd.writes < MaxWrites
    /\ heapR' = [heapR EXCEPT ![rd.ref.obj].total_calls = 0]
    /\ rd' = [rd EXCEPT !.writes = @ + 1]
    /\ UNCHANGED <<up, session_costs, heapT, csv_file, session_file, th,
                   clock, ncalls, errlog, sched, hist, elsewhere>>

\* The reader assigns through the dict get_all_sessions returned:
\* d[session_id]["total_cost"] = 0.0
reader_write_mapping ==
    /\ up
    /\ rd.ref.kind = "mapping"
    /\ rd.writes < MaxWrites
    /\ \E session_id \in DOMAIN session_costs :
          heapR' = [heapR EXCEPT ![session_costs[session_id]].total_cost = 0]
    /\ rd' = [rd EXCEPT !.writes = @ + 1]
    /\ UNCHANGED <<up, session_costs, heapT, csv_file, session_file, th,
                   clock, ncalls, errlog, sched, hist, elsewhere>>

\* A call whose starting state the reader's history records
track_call_observed(t) ==
    /\ TrackCallFrom(t, MaxCalls, SessionIds, ConcAgentNames, ConcModelNames,
                     ConcTokenPairs, FALSE)
    /\ rd' = [rd EXCEPT !.stable = @ \cup {Live}]

\* generate_summary, one statement at a time, on the mapping as it is when
\* the statement runs: which field of the summary each statement computes
SummaryField ==
    [calls |-> "total_calls", tokens |-> "total_tokens",
     cost |-> "total_cost", agents |-> "by_agent", models |-> "by_model",
     return |-> "total_sessions"]

SummaryNext ==
    [idle |-> "calls", calls |-> "tokens", tokens |-> "cost",
     cost |-> "agents", agents |-> "models", models |-> "return",
     return |-> "done"]

\* The first statement: total_calls = sum(...) (line 277)
generate_summary_begin ==
    /\ up
    /\ rd.pc = "idle"
    /\ rd' = [rd EXCEPT
                 !.pc = "tokens",
                 !.summary = [f \in {"total_calls"} |->
                                 generate_summary(Live).total_calls]]
    /\ UNCHANGED <<up, session_costs, heapR, heapT, csv_file, session_file,
                   th, clock, ncalls, errlog, sched, hist, elsewhere>>

\* The statements of lines 278-299 and the dict of the return (301-308)
generate_summary_step ==
    /\ up
    /\ rd.pc \in {"tokens", "cost", "agents", "models", "return"}
    /\ LET f == SummaryField[rd.pc]
       IN  rd' = [rd EXCEPT
                     !.pc = SummaryNext[rd.pc],
                     !.summary = [g \in DOMAIN @ \cup {f} |->
                                     IF g = f THEN generate_summary(Live)[f]
                                     ELSE @[g]]]
    /\ UNCHANGED <<up, session_costs, heapR, heapT, csv_file, session_file,
                   th, clock, ncalls, errlog, sched, hist, elsewhere>>

\* A reader that keeps and changes what the getters return
NextRead ==
    \/ track_call_begin(1)
    \/ CallStep(1)
    \/ \E session_id \in SessionIds : get_session_cost(session_id)
    \/ get_all_sessions
    \/ reader_write_rollup
    \/ reader_write_mapping

SpecRead == Init /\ [][NextRead]_vars

\* One caller of track_call and one concurrent caller of generate_summary
NextSummary ==
    \/ track_call_observed(1)
    \/ CallStep(1)
    \/ generate_summary_begin
    \/ generate_summary_step

SpecSummary == Init /\ [][NextSummary]_vars

----------------------------------------------------------------------------
\* A call of CostTracker.calculate_cost (lines 110-125)
calculate_cost_call ==
    /\ ~calc.called
    /\ calc' = [calc EXCEPT
                   !.called = TRUE,
                   !.result = calculate_cost(calc.model, calc.input_tokens,
                                             calc.output_tokens)]
    /\ UNCHANGED <<up, session_costs, heapR, heapT, csv_file, session_file,
                   th, clock, ncalls, errlog, sched, hist, rd, eng2, tl,
                   ft, tk>>

NextCalc == calculate_cost_call

SpecCalc == InitCalc /\ [][NextCalc]_vars

----------------------------------------------------------------------------
\* Properties

\* The calls, tokens or cost (k = 1, 2, 3) summed over a by-name breakdown
SumField(d, k) ==
    SumOver(DOMAIN d, [n \in DOMAIN d |-> d[n][TripleField[k]]])

Quiescent == up /\ AllIdle

Derived == analyze_by_session(load_cost_log(csv_file))

\* C2: whenever no track_call is in progress, analyze_by_session over the
\* rows of the log gives, for every session, the calls, tokens and cost of the
\* live rollup and the same per-agent and per-model triples, also after
\* restarts on the same directory.
C2_RederivationEquivalence ==
    Quiescent =>
        /\ DOMAIN Derived = DOMAIN Live
        /\ \A s \in DOMAIN Live :
              /\ Derived[s].calls = Live[s].total_calls
              /\ Derived[s].tokens = Live[s].total_tokens
              /\ Derived[s].cost = Live[s].total_cost
              /\ Derived[s].agents = Live[s].agents
              /\ Derived[s].models = Live[s].models

C2_Witness ==
    /\ Quiescent
    /\ hist.boots > 0
    /\ hist.since_boot > 0
    /\ DOMAIN Live = SessionIds
    /\ \E s \in DOMAIN Live : Live[s].total_tokens = 5

\* C3: once all concurrent track_call invocations have returned, every
\* session's rollup counts the calls returned for it and holds the sums of
\* their tokens and costs (no lost update).
C3_NoLostUpdates ==
    (Quiescent /\ ncalls = NThreads) =>
        \A s \in SessionIds :
            hist.acked[s].calls > 0 =>
                /\ s \in DOMAIN Live
                /\ Live[s].total_calls = hist.acked[s].calls
                /\ Live[s].total_tokens = hist.acked[s].tokens
                /\ Live[s].total_cost = hist.acked[s].cost

\* The read-modify-write section of _update_session: entered by the test of
\* line 210, left when the snapshot is written
InSection(t) ==
    th[t].pc \in {"new_sess", "get_sess", "set_last", "rd_total", "wr_total",
                  "chk_agent", "new_agent", "rd_agent", "wr_agent",
                  "chk_model", "new_model", "rd_model", "wr_model",
                  "save_open", "save_dump", "save_close"}

\* C4: no two track_call invocations are inside the read-modify-write
\* section at the same time.
C4_MutualExclusion ==
    \A t1 \in Threads, t2 \in Threads :
        (t1 # t2) => ~(InSection(t1) /\ InSection(t2))

\* The totals of session s in the mapping v, zero when v has no rollup for s
TotalsOf(v, s) ==
    IF s \in DOMAIN v
    THEN [calls |-> v[s].total_calls, tokens |-> v[s].total_tokens,
          cost |-> v[s].total_cost]
    ELSE ZeroTriple

\* C5: with every snapshot write succeeded, the engine constructed after a
\* graceful stop holds exactly the rollups the stopped engine held, and the
\* totals keep counting every call returned before and after restarts.
C5_RestartRecovery ==
    /\ (up /\ hist.boot = "restart" /\ hist.since_boot = 0
           /\ ~hist.save_failed) => Live = hist.at_stop
    /\ (Quiescent /\ ~hist.save_failed /\ ~hist.crashed) =>
           \A s \in SessionIds :
               /\ TotalsOf(Live, s) = hist.acked[s]
               /\ (s \in DOMAIN Live) <=> (hist.acked[s].calls > 0)

C5_Witness ==
    /\ Quiescent
    /\ hist.boot = "restart"
    /\ hist.since_boot = 1
    /\ ~hist.save_failed
    /\ ~hist.crashed
    /\ \E s \in DOMAIN Live :
          /\ s \in DOMAIN hist.at_stop
          /\ hist.at_stop[s].total_calls = 1
          /\ Live[s].total_calls = 2
          /\ Live[s].total_tokens = 10

\* C6: the engine constructed after a kill holds, for every session, all
\* the calls returned for it, except possibly the single most recently
\* returned call.
C6_DurabilityBound ==
    (up /\ hist.boot = "crash" /\ hist.since_boot = 0) =>
        \A s \in SessionIds :
            TotalsOf(Live, s).calls >=
                hist.acked[s].calls - (IF s = hist.last_acked THEN 1 ELSE 0)

\* C7: a call with a negative token count leaves no trace: no row in the
\* log, no rollup with a negative total, no Call Record returned.
C7_NegativeRejected ==
    /\ \A k \in 2..Len(csv_file.rows) :
          csv_file.rows[k][6] >= 0 /\ csv_file.rows[k][7] >= 0
    /\ \A s \in DOMAIN Live :
          Live[s].total_tokens >= 0 /\ Live[s].total_cost >= 0
    /\ \A t \in Threads :
          th[t].result.kind = "metrics" =>
              /\ th[t].result.value.input_tokens >= 0
              /\ th[t].result.value.output_tokens >= 0

\* The call of t has reached its return statement or has returned
AtReturn(t) == th[t].pc = "ret" \/ (th[t].pc = "idle" /\ Metrics(t) # NoMetrics)

Returned(t) == th[t].pc = "idle" /\ Metrics(t) # NoMetrics

\* C8: when the append to the log or the snapshot write of a call fails,
\* the call's record is still folded into the in-memory rollup and
\* track_call still returns the Call Record.
C8_FailuresNonFatal ==
    \A t \in Threads :
        (AtReturn(t) /\ (~th[t].csv_ok \/ ~th[t].save_ok)) =>
            /\ Metrics(t).session_id \in DOMAIN Live
            /\ Live[Metrics(t).session_id] = Folded(th[t].pre, Metrics(t))
            /\ Returned(t) =>
                  th[t].result = [kind |-> "metrics", value |-> Metrics(t)]

C8_Witness ==
    \E t \in Threads :
        /\ Returned(t)
        /\ ~th[t].csv_ok
        /\ ~th[t].save_ok
        /\ th[t].pre.total_calls = 1
        /\ Live[Metrics(t).session_id].total_calls = 2
        /\ th[t].result.kind = "metrics"

AfterFirstCall(m) ==
    [s \in {m.session_id} |-> Folded(NewRollup(m), m)]

\* C10: construction on a snapshot that does not parse completes with an
\* empty mapping and logs the error; the first call afterwards is folded
\* into a fresh rollup and returns its Call Record.
C10_CorruptSnapshot ==
    /\ [][(~up /\ session_file.state = "partial") =>
             /\ up'
             /\ session_costs' = EmptyMap
             /\ errlog'.load = errlog.load + 1]_vars
    /\ [](\A t \in Threads :
             (up /\ hist.loaded = "failed" /\ hist.since_boot = 1
                 /\ AtReturn(t)) =>
                 /\ Live = AfterFirstCall(Metrics(t))
                 /\ Returned(t) =>
                       th[t].result = [kind |-> "metrics",
                                       value |-> Metrics(t)])

C10_Witness ==
    /\ up
    /\ hist.loaded = "failed"
    /\ errlog.load = 1
    /\ hist.since_boot = 1
    /\ \E t \in Threads :
          /\ Returned(t)
          /\ th[t].csv_ok
          /\ th[t].save_ok
          /\ Live = AfterFirstCall(Metrics(t))
          /\ session_file = json_dump(Live)

\* The costs at the default tier: 0.15 and 0.60 dollars per million tokens,
\* which is 3 and 12 twentieths of a micro-dollar per token
DefaultTier(input_tokens, output_tokens) ==
    [input_cost |-> Round6(input_tokens * 3),
     output_cost |-> Round6(output_tokens * 12),
     total_cost |-> Round6(input_tokens * 3 + output_tokens * 12)]

\* C11: for a model that is no key of the pricing table, calculate_cost
\* returns the costs of the default tier gpt-4o-mini for the same counts,
\* whatever the counts; for gpt-4o-mini, 1,000,000 input tokens and no
\* output tokens it returns 0.15, 0.0 and 0.15.
C11_UnknownModelDefaultTier ==
    calc.called =>
        /\ calc.model \notin DOMAIN MODEL_PRICING =>
              /\ calc.result = DefaultTier(calc.input_tokens,
                                           calc.output_tokens)
              /\ calc.result = calculate_cost("gpt-4o-mini",
                                              calc.input_tokens,
                                              calc.output_tokens)
        /\ (calc.model = "gpt-4o-mini" /\ calc.input_tokens = 1000000
               /\ calc.output_tokens = 0) =>
              calc.result = [input_cost |-> 150000, output_cost |-> 0,
                             total_cost |-> 150000]

C11_Witness ==
    /\ calc.called
    /\ calc.model = "unknown-model-x"
    /\ calc.input_tokens = 1000000
    /\ calc.output_tokens = 1000000
    /\ calc.result = [input_cost |-> 150000, output_cost |-> 600000,
                      total_cost |-> 750000]

\* C12: for non-negative counts, the total_cost calculate_cost returns is
\* the sum of the input_cost and the output_cost it returns.
C12_TotalIsSumOfParts ==
    (calc.called /\ calc.input_tokens >= 0 /\ calc.output_tokens >= 0) =>
        calc.result.total_cost =
            calc.result.input_cost + calc.result.output_cost

\* C13: a reader cannot change the engine through what the getters
\* return: no write of the reader to the value it got from get_session_cost
\* or get_all_sessions changes the rollup mapping or the snapshot.
C13_ReadersCannotMutate ==
    [][(rd'.writes # rd.writes) =>
          (Live' = Live /\ session_file' = session_file)]_vars

\* Thread t has applied a part of its update and not yet all of it
Updating(t) ==
    th[t].pc \in {"get_sess", "set_last", "rd_total", "wr_total",
                  "chk_agent", "new_agent", "rd_agent", "wr_agent",
                  "chk_model", "new_model", "rd_model", "wr_model"}

\* The mappings that existed between two complete updates so far
StableStates == rd.stable \cup (IF Updating(1) THEN {} ELSE {Live})

\* C14: the summary generate_summary returns while track_call runs
\* concurrently is the summary of one mapping that existed between two
\* complete updates.
C14_ConsistentSummary ==
    rd.pc = "done" =>
        rd.summary \in {generate_summary(v) : v \in StableStates}

\* The line is the header row: told by its text columns (2 to 5), the
\* others holding numbers in a data row and column names in the header
IsHeader(line) == \A c \in 2..5 : line[c] = CsvHeader[c]

\* C15: the log, once it exists, starts with the header row and holds the
\* header nowhere else, whatever engines were constructed on the directory
\* and whatever calls they made.
C15_HeaderOnce ==
    csv_file.exists =>
        /\ Len(csv_file.rows) >= 1
        /\ IsHeader(csv_file.rows[1])
        /\ \A k \in 2..Len(csv_file.rows) : ~IsHeader(csv_file.rows[k])

C15_Witness ==
    /\ up
    /\ eng2.up
    /\ hist.boots > 0
    /\ Len(csv_file.rows) = 3
    /\ DOMAIN eng2.session_costs # {}
    /\ \E s \in SessionIds : hist.acked[s].calls > 0

\* The number of data rows of session s in the log
RowsOf(s) ==
    Cardinality({k \in 2..Len(csv_file.rows) : csv_file.rows[k][2] = s})

\* C16: once all calls, concurrent ones included, have returned, the log
\* holds one data row per returned call of each session, and each call has
\* increased its session's total_calls by exactly one.
C16_RowPerCall ==
    Quiescent =>
        \A s \in SessionIds :
            /\ RowsOf(s) = hist.acked[s].calls
            /\ TotalsOf(Live, s).calls = RowsOf(s)

\* C17: whenever no track_call is in progress, a call has returned and no
\* snapshot write has failed, the snapshot file holds the whole in-memory
\* mapping, also after concurrent calls.
C17_SnapshotIsMemory ==
    (Quiescent /\ ~hist.save_failed /\ hist.last_acked # "") =>
        session_file = json_dump(Live)

\* The positions of the workflow-start events in the sequence tr
StartsIn(tr) == {k \in 1..Len(tr) : tr[k].type = "workflow_start"}

LastStart(tr) == CHOOSE k \in StartsIn(tr) : \A j \in StartsIn(tr) : j <= k

LastEvent == tl.traces[Len(tl.traces)]

\* The call appended one event and left the earlier ones as they were
AppendedOne ==
    /\ Len(tl'.traces) = Len(tl.traces) + 1
    /\ SubSeq(tl'.traces, 1, Len(tl.traces)) = tl.traces

\* C18: start_workflow makes its new trace id and its name the active
\* ones, whatever was active; end_workflow returns and logs the trace id of
\* the workflow started last, with its name when no end came in between;
\* both leave the events logged before in place and in order.
C18_SingleActiveWorkflow ==
    /\ [](tl.last_op = "start_workflow" =>
             /\ LastEvent.type = "workflow_start"
             /\ tl.current_trace_id = LastEvent.data.trace_id
             /\ tl.current_workflow = LastEvent.data.workflow_name
             /\ tl.result = LastEvent.data.trace_id
             /\ \A k \in StartsIn(tl.traces) \ {Len(tl.traces)} :
                   tl.traces[k].data.trace_id # LastEvent.data.trace_id)
    /\ []((tl.last_op = "end_workflow" /\ StartsIn(tl.traces) # {}) =>
             LET b == tl.traces[LastStart(tl.traces)]
             IN  /\ LastEvent.type = "workflow_end"
                 /\ tl.result.trace_id = b.data.trace_id
                 /\ LastEvent.data.trace_id = b.data.trace_id
                 /\ (\A k \in (LastStart(tl.traces) + 1)..(Len(tl.traces) - 1) :
                        tl.traces[k].type # "workflow_end") =>
                        LastEvent.data.workflow_name = b.data.workflow_name)
    /\ [][(tl'.last_op \in {"start_workflow", "end_workflow"}
             /\ tl'.now # tl.now) => AppendedOne]_vars

C18_Witness ==
    /\ tl.last_op = "end_workflow"
    /\ Len(tl.traces) = 3
    /\ tl.traces[1].type = "workflow_start"
    /\ tl.traces[1].data.workflow_name = "A"
    /\ tl.traces[2].type = "workflow_start"
    /\ tl.traces[2].data.workflow_name = "B"
    /\ tl.traces[3].data.workflow_name = "B"
    /\ tl.traces[3].data.trace_id = tl.traces[2].data.trace_id
    /\ tl.result.trace_id = tl.traces[2].data.trace_id

\* C19: log_agent_response appends exactly one agent-response event; the
\* response it stores is the first 200 characters of the response given
\* when that is longer than 200 characters, and the response given
\* otherwise; no stored response is longer than 200 characters.
C19_ResponseTruncated ==
    /\ [](tl.last_op = "log_agent_response" =>
             /\ LastEvent.type = "agent_response"
             /\ LastEvent.data.response =
                   IF Len(tl.arg) > MaxResponseLen
                   THEN [i \in 1..MaxResponseLen |-> tl.arg[i]]
                   ELSE tl.arg)
    /\ [](\A k \in 1..Len(tl.traces) :
             tl.traces[k].type = "agent_response" =>
                 Len(tl.traces[k].data.response) <= MaxResponseLen)
    /\ [][(tl'.last_op = "log_agent_response" /\ tl'.now # tl.now) =>
             AppendedOne]_vars

C19_Witness ==
    /\ tl.last_op = "log_agent_response"
    /\ Len(tl.arg) = MaxResponseLen + 1
    /\ LastEvent.type = "agent_response"
    /\ Len(LastEvent.data.response) = MaxResponseLen
    /\ LastEvent.data.response[MaxResponseLen] = tl.arg[MaxResponseLen]

\* Every counter of the triple y is at least the one of the triple x
TripleGeq(y, x) ==
    y.calls >= x.calls /\ y.tokens >= x.tokens /\ y.cost >= x.cost

\* Every name of the breakdown x is in y with a triple that is not smaller
BreakdownGeq(y, x) ==
    \A n \in DOMAIN x : n \in DOMAIN y /\ TripleGeq(y[n], x[n])

\* C20: while the process lives, a session in the rollup mapping stays in
\* it, and its total_calls, total_tokens, total_cost and every by-agent and
\* by-model triple never decrease from one state to the next.
C20_MonotonicSessions ==
    [][(up /\ up') =>
          \A s \in DOMAIN Live :
              /\ s \in DOMAIN Live'
              /\ Live'[s].total_calls >= Live[s].total_calls
              /\ Live'[s].total_tokens >= Live[s].total_tokens
              /\ Live'[s].total_cost >= Live[s].total_cost
              /\ BreakdownGeq(Live'[s].agents, Live[s].agents)
              /\ BreakdownGeq(Live'[s].models, Live[s].models)]_vars

\* The timestamps of the log rows of session s
RowTimes(s) ==
    {csv_file.rows[k][1] :
        k \in {j \in 2..Len(csv_file.rows) : csv_file.rows[j][2] = s}}

\* C21: the start_time of a session is the timestamp of its first Call
\* Record and never changes, also over a restart that reloads the
\* snapshot; last_update never moves backwards and is never before
\* start_time, for any interleaving of track_call invocations.
C21_SessionTimes ==
    /\ [](up => \A s \in DOMAIN Live :
                   /\ Live[s].start_time <= Live[s].last_update
                   /\ \A ts \in RowTimes(s) : Live[s].start_time <= ts)
    /\ []((up /\ hist.boot = "restart") =>
             \A s \in DOMAIN Live \cap DOMAIN hist.at_stop :
                 Live[s].start_time = hist.at_stop[s].start_time)
    /\ [][(up /\ up') =>
             \A s \in DOMAIN Live \cap DOMAIN Live' :
                 /\ Live'[s].start_time = Live[s].start_time
                 /\ Live'[s].last_update >= Live[s].last_update]_vars

\* The mapping a reader of session_costs.json finds in it now
Snapshot ==
    IF session_file.state = "json" THEN json_load(session_file) ELSE EmptyMap

\* C22: for a single caller and no failing file operation, in every state
\* and for every session, the rows of the log are at least the in-memory
\* total_calls, which is at least the snapshot's total_calls, each pair
\* differs by at most 1, and all three are equal when no call is running.
C22_StepOrder ==
    up => \A s \in SessionIds :
             LET rows == RowsOf(s)
                 mem == TotalsOf(Live, s).calls
                 snap == TotalsOf(Snapshot, s).calls
             IN  /\ rows >= mem /\ rows - mem <= 1
                 /\ mem >= snap /\ mem - snap <= 1
                 /\ AllIdle => (rows = mem /\ mem = snap)

\* The costs of the entries named n, one per session that has one
CostsOf(v, kind, n) ==
    LET having == SelectSeq(InsertionOrder(v),
                            LAMBDA s : n \in DOMAIN v[s][kind])
    IN  [i \in 1..Len(having) |-> v[having[i]][kind][n].cost]

\* The breakdown b of a summary is the sum of the breakdowns of the
\* sessions of v, and its calls and tokens add up to the grand totals
BreakdownIsFold(b, v, kind, g) ==
    /\ DOMAIN b = UNION {DOMAIN v[s][kind] : s \in DOMAIN v}
    /\ \A n \in DOMAIN b :
          LET held == {s \in DOMAIN v : n \in DOMAIN v[s][kind]}
          IN  /\ b[n].calls =
                    SumOver(held, [s \in held |-> v[s][kind][n].calls])
              /\ b[n].tokens =
                    SumOver(held, [s \in held |-> v[s][kind][n].tokens])
              /\ b[n].cost = FloatSum(CostsOf(v, kind, n))
    /\ SumOver(DOMAIN b, [n \in DOMAIN b |-> b[n].calls]) = g.total_calls
    /\ SumOver(DOMAIN b, [n \in DOMAIN b |-> b[n].tokens]) = g.total_tokens

\* The summary g is the fold of the mapping v, its total_cost being total
SummaryIsFold(g, v, total) ==
    /\ g.total_sessions = Cardinality(DOMAIN v)
    /\ g.total_calls = SumTotals(v, "total_calls")
    /\ g.total_tokens = SumTotals(v, "total_tokens")
    /\ g.total_cost = total
    /\ BreakdownIsFold(g.by_agent, v, "agents", g)
    /\ BreakdownIsFold(g.by_model, v, "models", g)

\* generate_summary changes neither the mapping nor either file
SummaryIsPure ==
    [][(ft'.last_op = "generate_summary" /\ ft' # ft) =>
          /\ ft'.session_costs = ft.session_costs
          /\ ft'.rows = ft.rows
          /\ ft'.saved = ft.saved]_vars

\* C23 as stated: generate_summary is the fold of the rollups, its
\* total_cost being what get_total_cost returns, and it changes neither the
\* mapping nor either file.
C23_SummaryTotalIsGetTotal ==
    /\ [](ft.last_op = "generate_summary" =>
             SummaryIsFold(ft.summary, ft.session_costs,
                           get_total_cost(ft.session_costs)))
    /\ SummaryIsPure

\* C23, amended: generate_summary is the fold of the rollups, its
\* total_cost being what get_total_cost returns rounded to 6 decimals, and
\* it changes neither the mapping nor either file.
C23_SummaryIsFold ==
    /\ [](ft.last_op = "generate_summary" =>
             SummaryIsFold(ft.summary, ft.session_costs,
                           FloatRound6(get_total_cost(ft.session_costs))))
    /\ SummaryIsPure

C23_Witness ==
    /\ ft.last_op = "generate_summary"
    /\ ft.summary.total_sessions = 2
    /\ Cardinality(DOMAIN ft.summary.by_agent) = 2
    /\ ft.summary.total_calls = 2
    /\ ft.summary.total_cost # get_total_cost(ft.session_costs)
    /\ ToMicro(ft.summary.total_cost) = 47

\* The entries of the breakdown x other than n are in y as they were
OthersKept(y, x, n) ==
    \A k \in DOMAIN x \ {n} : k \in DOMAIN y /\ y[k] = x[k]

\* C24: every step of a track_call for session s, agent a and model m
\* leaves the rollup of every other session as it was, and in the rollup
\* of s the triples of every agent other than a and of every model other
\* than m.
C24_FrameOfTrackCall ==
    [][(up /\ up' /\ <<session_costs, heapR, heapT>>'
                        # <<session_costs, heapR, heapT>>) =>
          \A t \in Threads :
              (th[t].pc # "idle" /\ th'[t] # th[t]) =>
                  \A s \in DOMAIN Live :
                      /\ s \in DOMAIN Live'
                      /\ s # Metrics(t).session_id => Live'[s] = Live[s]
                      /\ s = Metrics(t).session_id =>
                            /\ OthersKept(Live'[s].agents, Live[s].agents,
                                          Metrics(t).agent_name)
                            /\ OthersKept(Live'[s].models, Live[s].models,
                                          Metrics(t).model)]_vars

C24_Witness ==
    /\ up
    /\ th[1].pc = "ret"
    /\ LET m == Metrics(1)
           r == Live[m.session_id]
       IN  /\ r.total_calls = 2
           /\ \E a \in DOMAIN r.agents \ {m.agent_name} : r.agents[a].calls = 1
           /\ \E k \in DOMAIN r.models \ {m.model} : r.models[k].calls = 1

\* C25: in every state of the TraceLogger current_trace_id is null exactly
\* when current_workflow is null; after end_workflow no trace id is
\* active; after clear_traces the event sequence is empty and both are
\* null.
C25_ActiveTogether ==
    /\ (tl.current_trace_id = None) <=> (tl.current_workflow = None)
    /\ tl.last_op = "end_workflow" => tl.current_trace_id = None
    /\ tl.last_op = "clear_traces" =>
          /\ tl.traces = <<>>
          /\ tl.current_trace_id = None
          /\ tl.current_workflow = None

\* C26: get_stats reports as num_calls the number of log_llm_call
\* invocations made with an active task since the last reset; each such
\* call is appended to the calls of the task current at that moment and a
\* call with no active task changes nothing; num_calls never decreases
\* except through reset.
C26_NumCallsCountsLogged ==
    /\ [](tk.last_op = "get_stats" => tk.result.num_calls = tk.logged)
    /\ [][(tk'.last_op = "log_llm_call" /\ tk'.ops # tk.ops) =>
             IF tk'.logged = tk.logged
             THEN tk'.tasks = tk.tasks
             ELSE /\ NumCalls(tk'.tasks) = NumCalls(tk.tasks) + 1
                  /\ Len(tk'.tasks[tk.current_task_id].llm_calls) =
                        Len(tk.tasks[tk.current_task_id].llm_calls) + 1]_vars
    /\ [][(tk'.last_op # "reset") =>
             NumCalls(tk'.tasks) >= NumCalls(tk.tasks)]_vars

====
